---- MODULE Spec2Model ----
(***************************************************************************)
(* A model of the ai-agent-rag core: the session memory (app/agent.py,     *)
(* AgentMemory), the chunker (app/rag.py, DocumentProcessor.chunk_text)    *)
(* and the vector store with its persistence (app/rag.py,                  *)
(* FAISSVectorStore and RAGSystem).                                        *)
(*                                                                         *)
(* Each component has its own specification over the shared variables:     *)
(*   SpecMemory  - add_message / get_history / clear_session               *)
(*   SpecChunk   - one call of chunk_text, one loop iteration per step     *)
(*   SpecStore   - add_documents / ingest_documents / save / load / search *)
(*   SpecCalc    - one call of AgentTools.calculate                        *)
(*   SpecAgent   - calls of AIAgent.process_query, one stage per step      *)
(*   SpecPrompt  - one call of process_query on a session with a history   *)
(* A component's specification leaves the other components' variables at   *)
(* their initial values.                                                   *)
(*                                                                         *)
(* Python values are represented as follows.  A str or a list is a         *)
(* sequence (a str is a sequence of one-character strings); an index i of  *)
(* Python is position i + 1 here.  An Optional argument is <<>> for None   *)
(* and <<v>> for the value v.  A dict with string keys is a function whose *)
(* DOMAIN is the key set.                                                  *)
(***************************************************************************)
EXTENDS Integers, Sequences, FiniteSets, TLC

VARIABLES
    \* ---- AgentMemory (app/agent.py) ----
    sessions,       \* self.sessions: session id -> list of messages
    appended,       \* history variable: per session id, the <<role, content>>
                    \* of every add_message since the last clear_session
    op,             \* the call that ran last: [name, sid, limit]
    ret,            \* what the last call returned (<<>> for a call returning None)
    callers,        \* the threads inside add_message, per caller:
                    \* [pc, session_id, role, content, calls] with pc one of
                    \* "idle", "check", "create", "append"
    \* ---- DocumentProcessor.chunk_text (app/rag.py) ----
    text,           \* argument text
    chunk_size,     \* argument chunk_size
    chunk_overlap,  \* argument chunk_overlap
    start,          \* local start
    chunks,         \* local chunks (before the final filter)
    windows,        \* history variable: the <<start, end>> of every iteration
    result,         \* the returned list
    cpc,            \* position in chunk_text: "idle", "call", "loop", "done", "exhausted"
    \* ---- FAISSVectorStore and RAGSystem (app/rag.py) ----
    index,          \* vector_store.index: the vectors held by the FAISS index, in
                    \* insertion order; each entry is [vec, of], where `of` is a
                    \* history field: the document the vector was added with
    documents,      \* vector_store.documents
    is_initialized, \* RAGSystem.is_initialized
    index_file,     \* the file faiss.index: None when absent, else Some(entries)
    documents_file, \* the file documents.pkl: [state, docs], state "absent",
                    \* "ok" or "corrupt" (truncated by a failed dump)
    sop,            \* the store call that ran last: [name, outcome, ndocs, nembs]
    sret,           \* the dict the last ingest_documents returned, else <<>>
    calls,          \* history variable: the number of store calls made so far
    scall,          \* the search call that ran last, None when the last call
                    \* was no search: Some([level, query, top_k, embedded])
    found,          \* the list the last search returned
    stamp,          \* history variable: for each of the two files, the number
                    \* of the store call (a save) that wrote it last, 0 if none
    succeeded,      \* history variable: an ingest_documents or a load_index of
                    \* this RAGSystem object has returned normally (load: True)
    ingested,       \* the last call when it was an ingest_documents:
                    \* [paths, provider]; else no paths and provider "none"
    \* ---- AgentTools.calculate (app/agent.py) ----
    expression,     \* argument expression: [type, chars]
    kpc,            \* position in calculate: "idle", "call", "eval", "done"
    evaluated,      \* history variable: eval was called
    cret,           \* the returned str
    \* ---- AIAgent.process_query (app/agent.py) ----
    rag_system,     \* self.rag_system: "None" or "RAGSystem"
    qargs,          \* the arguments of the call: [query, session_id, use_tools]
    qpc,            \* position in process_query: "idle", "called", "route",
                    \* "first", "tools", "fallback", "reask", "finalize", "except",
                    \* "returned", "raised" (an exception left the call)
    messages,       \* local messages
    first,          \* response.choices[0].message of the first completion:
                    \* None before it, else Some([content, tool_calls])
    ti,             \* position of the loop over message.tool_calls
    tool_calls_made,\* local tool_calls_made
    sources,        \* local sources
    answer,         \* local answer
    qresult,        \* the returned dict, None until the call returns
    exc,            \* the exception raised in the call, None if none:
                    \* Some([at, cls])
    completions,    \* history variable: the completion requests of this
                    \* call, each [tools, messages]
    entry,          \* history variable: the session's messages at the call
    events,         \* history variable: what this call has done so far, in
                    \* order: "user" (user message appended), "completion"
                    \* (request made), "tool" (_execute_tool called),
                    \* "assistant" (assistant message appended), "return"
    queries         \* history variable: the number of process_query calls

memVars   == <<sessions, appended, op, ret>>
callVars  == <<callers>>
chunkVars == <<text, chunk_size, chunk_overlap, start, chunks, windows, result, cpc>>
storeVars == <<index, documents, is_initialized, index_file, documents_file, sop, sret, calls,
               scall, found, stamp, succeeded, ingested>>
calcVars  == <<expression, kpc, evaluated, cret>>
agentVars == <<rag_system, qargs, qpc, messages, first, ti, tool_calls_made, sources, answer,
               qresult, exc, completions, entry, events, queries>>
vars      == <<memVars, callVars, chunkVars, storeVars, calcVars, agentVars>>

(***************************************************************************)
(* Bounds of the model.                                                    *)
(***************************************************************************)
MaxMessages == 3        \* messages held by all sessions together
MaxLen      == 6        \* length of the text given to chunk_text
MaxSize     == 5        \* largest chunk_size and chunk_overlap tried
MaxChunks   == 8        \* capacity of the chunks list (memory)
MaxIndex    == 3        \* entries the vector index can hold
MaxPaths    == 2        \* paths in one ingest_documents call
MaxAdd      == 2        \* list length in a direct add_documents call
MaxCalls    == 4        \* store calls in one behaviour
MaxExpr     == 4        \* characters of the expression given to calculate
MaxQueries  == 2        \* process_query calls in one behaviour
MaxToolCalls == 2       \* tool calls carried by one completion
MaxTurns    == 6        \* earlier turns of a session with a history
MaxAppends  == 2        \* add_message calls of one concurrent caller

(***************************************************************************)
(* Python helpers.                                                         *)
(***************************************************************************)
None == <<>>
Some(v) == <<v>>

\* bool(x) of an Optional[int]: None and 0 are falsy.
Truthy(x) == x /= None /\ x[1] /= 0

Max(a, b) == IF a >= b THEN a ELSE b
Min(a, b) == IF a <= b THEN a ELSE b

\* A slice bound i of a sequence of length n, as Python normalises it.
PyBound(i, n) ==
    IF i < 0 THEN Max(i + n, 0) ELSE Min(i, n)

\* s[a:b]
PySlice(s, a, b) ==
    LET lo == PyBound(a, Len(s))
        hi == PyBound(b, Len(s))
    IN  IF lo >= hi THEN <<>> ELSE SubSeq(s, lo + 1, hi)

\* s[a:]
PySliceFrom(s, a) == PySlice(s, a, Len(s))

(***************************************************************************)
(* AgentMemory                                                             *)
(***************************************************************************)
SessionIds == {"s1", "s2"}
Roles      == {"user", "assistant"}
Contents   == {"hello", "bye"}
\* metadata arguments: None, the empty dict, a non-empty dict
MetaArgs   == {"None", "{}", "{error}"}
Limits     == {None} \cup {Some(n) : n \in 0..(MaxMessages + 1)}

\* The message dict add_message builds.  The timestamp is left out: no
\* operation reads it.
Message(role, content, metadata) ==
    [role     |-> role,
     content  |-> content,
     metadata |-> IF metadata \in {"None", "{}"} THEN "{}" ELSE metadata]

add_message_shared(ss, session_id, role, content, metadata) ==
    LET created == [s \in DOMAIN ss \cup {session_id} |->
                       IF s \in DOMAIN ss THEN ss[s] ELSE <<>>]
    IN  [s \in DOMAIN created |->
            Append(created[s], Message(role, content, metadata))]

add_message_prepend(ss, session_id, role, content, metadata) ==
    LET created == [s \in DOMAIN ss \cup {session_id} |->
                       IF s \in DOMAIN ss THEN ss[s] ELSE <<>>]
    IN  [created EXCEPT ![session_id] =
            <<Message(role, content, metadata)>> \o @]

\* AgentMemory.add_message: the sessions dict after the call.
add_message(ss, session_id, role, content, metadata) ==
    LET created == [s \in DOMAIN ss \cup {session_id} |->
                       IF s \in DOMAIN ss THEN ss[s] ELSE <<>>]
    IN  [created EXCEPT ![session_id] =
            Append(@, Message(role, content, metadata))]

\* AgentMemory.get_history: the returned list.
get_history(ss, session_id, limit) ==
    LET history == IF session_id \in DOMAIN ss THEN ss[session_id] ELSE <<>>
    IN  IF Truthy(limit)
        THEN PySliceFrom(history, -limit[1])
        ELSE history

clear_session_keep(ss, session_id) == ss

\* AgentMemory.clear_session: the sessions dict after the call.
clear_session(ss, session_id) ==
    IF session_id \in DOMAIN ss
    THEN [s \in DOMAIN ss \ {session_id} |-> ss[s]]
    ELSE ss

get_context_messages_all(ss, session_id, limit) ==
    LET history == get_history(ss, session_id, None)
    IN  [i \in 1..Len(history) |->
            [role |-> history[i].role, content |-> history[i].content]]

\* AgentMemory.get_context_messages
get_context_messages(ss, session_id, limit) ==
    LET history == get_history(ss, session_id, Some(limit))
    IN  [i \in 1..Len(history) |->
            [role |-> history[i].role, content |-> history[i].content]]

RECURSIVE SumLen(_, _)
SumLen(ss, S) ==
    IF S = {} THEN 0
    ELSE LET s == CHOOSE x \in S : TRUE
         IN  Len(ss[s]) + SumLen(ss, S \ {s})

TotalMessages == SumLen(sessions, DOMAIN sessions)

MemInit ==
    /\ sessions = <<>>
    /\ appended = [s \in SessionIds |-> <<>>]
    /\ op = [name |-> "init", sid |-> "", limit |-> None]
    /\ ret = <<>>

AddMessage(sid, role, content, metadata) ==
    /\ TotalMessages < MaxMessages
    /\ sessions' = add_message(sessions, sid, role, content, metadata)
    /\ appended' = [appended EXCEPT ![sid] = Append(@, <<role, content>>)]
    /\ op' = [name |-> "add_message", sid |-> sid, limit |-> None]
    /\ ret' = <<>>

GetHistory(sid, limit) ==
    /\ ret' = get_history(sessions, sid, limit)
    /\ op' = [name |-> "get_history", sid |-> sid, limit |-> limit]
    /\ UNCHANGED <<sessions, appended>>

ClearSession(sid) ==
    /\ sessions' = clear_session(sessions, sid)
    /\ appended' = [appended EXCEPT ![sid] = <<>>]
    /\ op' = [name |-> "clear_session", sid |-> sid, limit |-> None]
    /\ ret' = <<>>

(***************************************************************************)
(* AgentMemory.add_message run by concurrent callers.  The class has no    *)
(* lock; a thread can be switched out between the statements of the        *)
(* method, which are taken here as its steps.                              *)
(***************************************************************************)
Callers == {"c1", "c2"}

\* A caller that is not inside add_message.
Outside(made) ==
    [pc |-> "idle", session_id |-> "", role |-> "", content |-> "", calls |-> made]

\* No caller has called yet.
CallIdle == callers = [c \in Callers |-> Outside(0)]

CallInit ==
    /\ MemInit
    /\ CallIdle

\* self.sessions[session_id] = []  on the dict ss: the key is bound to a new
\* empty list, whatever it was bound to.
create_list(ss, session_id) ==
    [s \in DOMAIN ss \cup {session_id} |-> IF s = session_id THEN <<>> ELSE ss[s]]

\* Caller c enters add_message(session_id, role, content).
CallAddMessage(c, session_id, role, content) ==
    /\ callers[c].pc = "idle"
    /\ callers[c].calls < MaxAppends
    /\ callers' = [callers EXCEPT ![c] =
                      [pc |-> "check", session_id |-> session_id, role |-> role,
                       content |-> content, calls |-> @.calls + 1]]
    /\ op' = [name |-> "add_message", sid |-> session_id, limit |-> None]
    /\ UNCHANGED <<sessions, appended, ret>>

\* if session_id not in self.sessions:
CheckSession(c) ==
    /\ callers[c].pc = "check"
    /\ callers' = [callers EXCEPT ![c].pc =
                      IF callers[c].session_id \notin DOMAIN sessions
                      THEN "create" ELSE "append"]
    /\ UNCHANGED memVars

\* self.sessions[session_id] = []
CreateSession(c) ==
    /\ callers[c].pc = "create"
    /\ sessions' = create_list(sessions, callers[c].session_id)
    /\ callers' = [callers EXCEPT ![c].pc = "append"]
    /\ UNCHANGED <<appended, op, ret>>

\* message = {...}; self.sessions[session_id].append(message); return
AppendMessage(c) ==
    /\ callers[c].pc = "append"
    /\ sessions' = [sessions EXCEPT ![callers[c].session_id] =
                       Append(@, Message(callers[c].role, callers[c].content, "None"))]
    /\ appended' = [appended EXCEPT ![callers[c].session_id] =
                       Append(@, <<callers[c].role, callers[c].content>>)]
    /\ callers' = [callers EXCEPT ![c] = Outside(@.calls)]
    /\ ret' = <<>>
    /\ UNCHANGED op

(***************************************************************************)
(* DocumentProcessor.chunk_text                                            *)
(***************************************************************************)
\* A plain character, a sentence end, and a line break (which is also white space).
Chars == {"a", ".", "\n"}
Texts == UNION {[1..n -> Chars] : n \in 0..MaxLen}

\* str.isspace for one character
IsSpace(c) == c \in {" ", "\n", "\t", "\r"}

RECURSIVE lstrip(_)
lstrip(s) == IF s = <<>> \/ ~IsSpace(Head(s)) THEN s ELSE lstrip(Tail(s))

RECURSIVE rstrip(_)
rstrip(s) ==
    IF s = <<>> \/ ~IsSpace(s[Len(s)]) THEN s ELSE rstrip(SubSeq(s, 1, Len(s) - 1))

\* str.strip()
strip(s) == rstrip(lstrip(s))

\* str.rfind(c): the highest index of c in s, or -1
rfind(s, c) ==
    LET I == {i \in 1..Len(s) : s[i] = c}
    IN  IF I = {} THEN -1 ELSE (CHOOSE i \in I : \A j \in I : j <= i) - 1

Window_overrun(t, st, size) ==
    [chunk |-> PySlice(t, st, st + size + 1), end |-> st + size]

\* One iteration of the while loop up to the append: the chunk taken at
\* start st and the end of its window.
Window(t, st, size) ==
    LET end0   == st + size
        chunk0 == PySlice(t, st, end0)
    IN  IF end0 < Len(t)
        THEN LET last_period  == rfind(chunk0, ".")
                 last_newline == rfind(chunk0, "\n")
                 break_point  == Max(last_period, last_newline)
             IN  IF 2 * break_point > size     \* break_point > chunk_size * 0.5
                 THEN [chunk |-> PySlice(chunk0, 0, break_point + 1),
                       end   |-> st + break_point + 1]
                 ELSE [chunk |-> chunk0, end |-> end0]
        ELSE [chunk |-> chunk0, end |-> end0]

\* start = end - chunk_overlap
NextStart(end, overlap) == end - overlap

RemoveEmpty_none(cs) == cs

\* [c for c in chunks if c]
RemoveEmpty(cs) == SelectSeq(cs, LAMBDA c : c /= <<>>)

ChunkIdle ==
    /\ text = <<>>
    /\ chunk_size = 1
    /\ chunk_overlap = 0
    /\ start = 0
    /\ chunks = <<>>
    /\ windows = <<>>
    /\ result = <<>>
    /\ cpc = "idle"

\* Calls two characters beyond the bounds, with the largest overlap below
\* the size: the first ones where a window cut at a sentence end is
\* shorter than the overlap.
WideTexts   == [1..(MaxLen + 2) -> Chars]
WideSize    == MaxSize + 2
WideOverlap == WideSize - 1

\* A call chunk_text(text, chunk_size, chunk_overlap) about to run.
ChunkInit ==
    /\ \/ /\ text \in Texts
          /\ chunk_size \in 1..MaxSize
          /\ chunk_overlap \in 0..(MaxSize + 1)
       \/ /\ text \in WideTexts
          /\ chunk_size = WideSize
          /\ chunk_overlap = WideOverlap
    /\ start = 0
    /\ chunks = <<>>
    /\ windows = <<>>
    /\ result = <<>>
    /\ cpc = "call"

\* if not text: return []  -- else the locals are set up
ChunkEnter ==
    /\ cpc = "call"
    /\ cpc' = IF text = <<>> THEN "done" ELSE "loop"
    /\ UNCHANGED <<text, chunk_size, chunk_overlap, start, chunks, windows, result>>

\* One iteration of `while start < text_length`.
ChunkStep ==
    /\ cpc = "loop"
    /\ start < Len(text)
    /\ Len(chunks) < MaxChunks
    /\ LET w == Window(text, start, chunk_size)
       IN  /\ chunks' = Append(chunks, strip(w.chunk))
           /\ windows' = Append(windows, <<start, w.end>>)
           /\ start' = NextStart(w.end, chunk_overlap)
    /\ UNCHANGED <<text, chunk_size, chunk_overlap, result, cpc>>

\* The list cannot grow any further: chunks.append raises MemoryError.
ChunkExhaust ==
    /\ cpc = "loop"
    /\ start < Len(text)
    /\ Len(chunks) >= MaxChunks
    /\ cpc' = "exhausted"
    /\ UNCHANGED <<text, chunk_size, chunk_overlap, start, chunks, windows, result>>

\* The loop condition fails: return [c for c in chunks if c]
ChunkReturn ==
    /\ cpc = "loop"
    /\ start >= Len(text)
    /\ result' = RemoveEmpty(chunks)
    /\ cpc' = "done"
    /\ UNCHANGED <<text, chunk_size, chunk_overlap, start, chunks, windows>>

(***************************************************************************)
(* DocumentProcessor.process_document, EmbeddingGenerator,                 *)
(* FAISSVectorStore, RAGSystem                                             *)
(***************************************************************************)

\* chunk_text as a function: the loop from start st with the chunks cs so far.
RECURSIVE chunk_loop(_, _, _, _, _)
chunk_loop(t, size, overlap, st, cs) ==
    IF st < Len(t)
    THEN LET w == Window(t, st, size)
         IN  chunk_loop(t, size, overlap, NextStart(w.end, overlap),
                        Append(cs, strip(w.chunk)))
    ELSE cs

chunk_text(t, size, overlap) ==
    IF t = <<>> THEN <<>> ELSE RemoveEmpty(chunk_loop(t, size, overlap, 0, <<>>))

\* A path is [dir, stem, suffix]; Path.name is [stem, suffix].
Path(stem, suffix) == [dir |-> "docs", stem |-> stem, suffix |-> suffix]
PathName(path) == [stem |-> path.stem, suffix |-> path.suffix]

\* str.lower() on the suffixes that occur
Lower(suffix) == IF suffix = ".PDF" THEN ".pdf" ELSE suffix

\* The files on disk: a text file of two chunks, a PDF of one page, a file
\* of white space only, a path with no file behind it, an unsupported type.
PathA == Path("a", ".txt")
PathB == Path("b", ".PDF")
PathE == Path("e", ".md")
PathM == Path("m", ".txt")
PathC == Path("c", ".bin")
Paths == {PathA, PathB, PathE, PathM, PathC}

\* What reading a path gives: [ok, pages]; a text file is one "page".
FileSystem(path) ==
    CASE path = PathA -> [ok |-> TRUE,  pages |-> << <<"a", "a", ".", "a">> >>]
      [] path = PathB -> [ok |-> TRUE,  pages |-> << <<".", "a">> >>]
      [] path = PathE -> [ok |-> TRUE,  pages |-> << <<"\n">> >>]
      [] OTHER        -> [ok |-> FALSE, pages |-> <<>>]

RECURSIVE JoinPages(_)
JoinPages(pages) ==
    IF pages = <<>> THEN <<>> ELSE Head(pages) \o <<"\n">> \o JoinPages(Tail(pages))

\* DocumentProcessor.load_pdf: [ok, text]; ok = FALSE stands for ValueError
load_pdf(path) ==
    LET f == FileSystem(path)
    IN  IF f.ok THEN [ok |-> TRUE, text |-> JoinPages(f.pages)]
        ELSE [ok |-> FALSE, text |-> <<>>]

\* DocumentProcessor.load_text
load_text(path) ==
    LET f == FileSystem(path)
    IN  IF f.ok THEN [ok |-> TRUE, text |-> f.pages[1]]
        ELSE [ok |-> FALSE, text |-> <<>>]

\* settings.chunk_size and settings.chunk_overlap, scaled to the model's texts
SettingsChunkSize    == 3
SettingsChunkOverlap == 1

\* The chunk dict process_document builds.
Document(path, content, i, n) ==
    [content  |-> content,
     source   |-> PathName(path),
     chunk_id |-> i,
     metadata |-> [file_path |-> path, chunk_index |-> i, total_chunks |-> n]]

\* DocumentProcessor.process_document: [ok, docs]; ok = FALSE stands for the
\* ValueError of an unsupported type or of a failed read.
process_document(path) ==
    LET suffix == Lower(path.suffix)
        loaded == IF suffix = ".pdf" THEN load_pdf(path)
                  ELSE IF suffix \in {".txt", ".md"} THEN load_text(path)
                  ELSE [ok |-> FALSE, text |-> <<>>]
        cs     == chunk_text(loaded.text, SettingsChunkSize, SettingsChunkOverlap)
    IN  IF loaded.ok
        THEN [ok |-> TRUE,
              docs |-> [i \in 1..Len(cs) |-> Document(path, cs[i], i - 1, Len(cs))]]
        ELSE [ok |-> FALSE, docs |-> <<>>]

\* FAISSVectorStore.dimension, scaled down from 1536
Dimension == 2

\* The embedding provider: a fixed vector of Dimension numbers per text.
Embed(content) ==
    [i \in 1..Dimension |->
        IF i = 1 THEN Len(content)
        ELSE Cardinality({j \in 1..Len(content) : content[j] = "."})]

\* response.data of one embeddings.create call on a batch.  The provider
\* answers in input order; a faulty one ("short") leaves the last item out.
ProviderData(batch, provider) ==
    LET n == IF provider = "short" THEN Len(batch) - 1 ELSE Len(batch)
    IN  [i \in 1..n |-> Embed(batch[i])]

BatchSize == 100

RECURSIVE embed_batches(_, _, _)
embed_batches(texts, i, provider) ==
    IF i < Len(texts)
    THEN ProviderData(PySlice(texts, i, i + BatchSize), provider)
            \o embed_batches(texts, i + BatchSize, provider)
    ELSE <<>>

\* EmbeddingGenerator.generate_embeddings: [ok, embeddings]; ok = FALSE
\* stands for the ValueError raised when a batch call fails.
generate_embeddings(texts, provider) ==
    IF provider = "fail" /\ texts /= <<>>
    THEN [ok |-> FALSE, embeddings |-> <<>>]
    ELSE [ok |-> TRUE, embeddings |-> embed_batches(texts, 0, provider)]

\* np.array(embeddings, dtype=np.float32) followed by index.add accepts
\* only rows of the index's dimension.
FitsIndex(embeddings) == \A i \in 1..Len(embeddings) : Len(embeddings[i]) = Dimension

Entries(docs, embeddings) ==
    [i \in 1..Len(docs) |-> [vec |-> embeddings[i], of |-> docs[i]]]

\* add_documents putting the new entries in front of the stored ones.
add_documents_prepend(idx, stored, docs, embeddings) ==
    IF docs = <<>> \/ embeddings = <<>>
    THEN [outcome |-> "None", index |-> idx, documents |-> stored]
    ELSE IF Len(docs) /= Len(embeddings)
    THEN [outcome |-> "ValueError", index |-> idx, documents |-> stored]
    ELSE IF ~FitsIndex(embeddings)
    THEN [outcome |-> "Error", index |-> idx, documents |-> stored]
    ELSE [outcome   |-> "None",
          index     |-> Entries(docs, embeddings) \o idx,
          documents |-> docs \o stored]

\* FAISSVectorStore.add_documents on the store <<idx, stored>>:
\* [outcome, index, documents]; outcome "None" is a normal return.
add_documents(idx, stored, docs, embeddings) ==
    IF docs = <<>> \/ embeddings = <<>>
    THEN [outcome |-> "None", index |-> idx, documents |-> stored]
    ELSE IF Len(docs) /= Len(embeddings)
    THEN [outcome |-> "ValueError", index |-> idx, documents |-> stored]
    ELSE IF ~FitsIndex(embeddings)
    THEN [outcome |-> "Error", index |-> idx, documents |-> stored]
    ELSE [outcome   |-> "None",
          index     |-> idx \o Entries(docs, embeddings),
          documents |-> stored \o docs]

\* process_document on every path of the model, computed once.
Processed == [path \in Paths |-> process_document(path)]

RECURSIVE ProcessAll_abort(_)
\* The loop given up at the first path that fails.
ProcessAll_abort(paths) ==
    IF paths = <<>> THEN <<>>
    ELSE LET r == Processed[Head(paths)]
         IN  IF r.ok THEN r.docs \o ProcessAll_abort(Tail(paths)) ELSE <<>>

RECURSIVE ProcessAll(_)
\* The first loop of ingest_documents: the chunks of every path that
\* process_document accepts, in path order.
ProcessAll(paths) ==
    IF paths = <<>> THEN <<>>
    ELSE LET r == Processed[Head(paths)]
         IN  (IF r.ok THEN r.docs ELSE <<>>) \o ProcessAll(Tail(paths))

StoreCall(name, outcome, ndocs, nembs) ==
    [name |-> name, outcome |-> outcome, ndocs |-> ndocs, nembs |-> nembs]

\* RAGSystem.__init__ with nothing on disk.
StoreInit ==
    /\ index = <<>>
    /\ documents = <<>>
    /\ is_initialized = FALSE
    /\ index_file = None
    /\ documents_file = [state |-> "absent", docs |-> <<>>]
    /\ sop = StoreCall("init", "None", 0, 0)
    /\ sret = <<>>
    /\ calls = 0
    /\ scall = None
    /\ found = <<>>
    /\ stamp = [index_file |-> 0, documents_file |-> 0]
    /\ succeeded = FALSE
    /\ ingested = [paths |-> <<>>, provider |-> "none"]

StoreIdle == StoreInit

\* One more store call is made.
Called ==
    /\ calls < MaxCalls
    /\ calls' = calls + 1

\* The documents and vectors a direct caller of add_documents passes: the
\* chunk of the PDF, its embedding, and a vector of the wrong dimension.
SeqsUpTo(S, n) == UNION {[1..k -> S] : k \in 0..n}
DirectDocs == {Processed[PathB].docs[1]}
DirectVecs == {Embed(Processed[PathB].docs[1].content), [i \in 1..(Dimension + 1) |-> 0]}
AddInputs  == SeqsUpTo(DirectDocs, MaxAdd) \X SeqsUpTo(DirectVecs, MaxAdd)
PathLists  == SeqsUpTo(Paths, MaxPaths)

\* A call vector_store.add_documents(docs, embeddings).
AddDocuments(docs, embeddings) ==
    \E r \in {add_documents(index, documents, docs, embeddings)} :
        /\ Len(r.index) <= MaxIndex
        /\ index' = r.index
        /\ documents' = r.documents
        /\ sop' = StoreCall("add_documents", r.outcome, Len(docs), Len(embeddings))
        /\ sret' = <<>>
        /\ UNCHANGED <<is_initialized, index_file, documents_file>>

\* raise ValueError("No documents were successfully processed")
NoDocumentsError == "ValueError: No documents were successfully processed"

\* ingest_documents marking the engine ready before the chunks are embedded.
IngestDocuments_early(paths, provider) ==
    \E all_documents \in {ProcessAll(paths)} :
    \E texts \in {[i \in 1..Len(all_documents) |-> all_documents[i].content]} :
    \E emb \in {generate_embeddings(texts, provider)} :
    \E r \in {add_documents(index, documents, all_documents, emb.embeddings)} :
        /\ ingested' = [paths |-> paths, provider |-> provider]
        /\ IF all_documents = <<>> \/ ~emb.ok \/ r.outcome /= "None"
           THEN /\ sop' = StoreCall("ingest_documents",
                                    IF all_documents = <<>> THEN NoDocumentsError
                                    ELSE "ValueError",
                                    Len(all_documents), Len(emb.embeddings))
                /\ sret' = <<>>
                /\ is_initialized' = TRUE
                /\ UNCHANGED <<index, documents, index_file, documents_file>>
           ELSE /\ Len(r.index) <= MaxIndex
                /\ index' = r.index
                /\ documents' = r.documents
                /\ is_initialized' = TRUE
                /\ sop' = StoreCall("ingest_documents", "None",
                                    Len(all_documents), Len(emb.embeddings))
                /\ sret' = [total_documents |-> Len(paths),
                            total_chunks    |-> Len(all_documents),
                            status          |-> "success"]
                /\ UNCHANGED <<index_file, documents_file>>

\* A call rag_system.ingest_documents(paths) with the provider behaving as
\* `provider` says: "ok", "fail" (a batch call raises) or "short".
IngestDocuments(paths, provider) ==
    \E all_documents \in {ProcessAll(paths)} :
    \E texts \in {[i \in 1..Len(all_documents) |-> all_documents[i].content]} :
    \E emb \in {generate_embeddings(texts, provider)} :
    \E r \in {add_documents(index, documents, all_documents, emb.embeddings)} :
        /\ ingested' = [paths |-> paths, provider |-> provider]
        /\ IF all_documents = <<>> \/ ~emb.ok \/ r.outcome /= "None"
           THEN /\ sop' = StoreCall("ingest_documents",
                                    IF all_documents = <<>> THEN NoDocumentsError
                                    ELSE "ValueError",
                                    Len(all_documents), Len(emb.embeddings))
                /\ sret' = <<>>
                /\ UNCHANGED <<index, documents, is_initialized, index_file,
                               documents_file>>
           ELSE /\ Len(r.index) <= MaxIndex
                /\ index' = r.index
                /\ documents' = r.documents
                /\ is_initialized' = TRUE
                /\ sop' = StoreCall("ingest_documents", "None",
                                    Len(all_documents), Len(emb.embeddings))
                /\ sret' = [total_documents |-> Len(paths),
                            total_chunks    |-> Len(all_documents),
                            status          |-> "success"]
                /\ UNCHANGED <<index_file, documents_file>>

\* A call rag_system.save_index().  fault names the file operation of
\* FAISSVectorStore.save that raises: "none", "write_index" (nothing is
\* written), "open" (documents.pkl cannot be opened for writing) or "dump"
\* (pickle.dump fails after open(..., 'wb') truncated the file).
SaveIndex(fault) ==
    /\ index_file' = IF fault = "write_index" THEN index_file ELSE Some(index)
    /\ documents_file' =
         CASE fault = "none" -> [state |-> "ok", docs |-> documents]
           [] fault = "dump" -> [state |-> "corrupt", docs |-> <<>>]
           [] OTHER          -> documents_file
    /\ stamp' = [index_file     |-> IF fault = "write_index"
                                     THEN stamp.index_file ELSE calls + 1,
                 documents_file |-> IF fault \in {"none", "dump"}
                                     THEN calls + 1 ELSE stamp.documents_file]
    /\ sop' = StoreCall("save_index", IF fault = "none" THEN "None" ELSE "Error", 0, 0)
    /\ sret' = <<>>
    /\ UNCHANGED <<index, documents, is_initialized>>

\* A call rag_system.load_index().
LoadIndex ==
    IF index_file /= None /\ documents_file.state /= "absent"
    THEN /\ index' = index_file[1]
         /\ IF documents_file.state = "ok"
            THEN /\ documents' = documents_file.docs
                 /\ is_initialized' = TRUE
                 /\ sop' = StoreCall("load_index", "True", 0, 0)
            ELSE \* pickle.load raises on the truncated file
                 /\ sop' = StoreCall("load_index", "Error", 0, 0)
                 /\ UNCHANGED <<documents, is_initialized>>
         /\ sret' = <<>>
         /\ UNCHANGED <<index_file, documents_file>>
    ELSE /\ sop' = StoreCall("load_index", "False", 0, 0)
         /\ sret' = <<>>
         /\ UNCHANGED <<index, documents, is_initialized, index_file, documents_file>>

\* The process starts again: a new RAGSystem over the files left on disk.
Restart ==
    /\ index' = <<>>
    /\ documents' = <<>>
    /\ is_initialized' = FALSE
    /\ sop' = StoreCall("init", "None", 0, 0)
    /\ sret' = <<>>
    /\ UNCHANGED <<index_file, documents_file>>

\* faiss IndexFlatL2: the squared Euclidean distance of two vectors.
RECURSIVE SquaredL2(_, _)
SquaredL2(u, v) ==
    IF u = <<>> THEN 0
    ELSE (Head(u) - Head(v)) * (Head(u) - Head(v)) + SquaredL2(Tail(u), Tail(v))

\* index.search(query_array, k) for k <= ntotal: the k nearest entries as
\* [id, distance], nearest first, equal distances in insertion order; id is
\* the 0-based position of the vector in the index.
index_search(idx, q, k) ==
    LET d(i)    == SquaredL2(idx[i].vec, q)
        rank(i) == 1 + Cardinality({j \in 1..Len(idx) :
                                       d(j) < d(i) \/ (d(j) = d(i) /\ j < i)})
    IN  [p \in 1..k |->
            LET i == CHOOSE i \in 1..Len(idx) : rank(i) = p
            IN  [id |-> i - 1, distance |-> d(i)]]

\* result = self.documents[idx].copy(); result['score'] = float(distance)
Scored(doc, score) ==
    [content  |-> doc.content,
     source   |-> doc.source,
     chunk_id |-> doc.chunk_id,
     metadata |-> doc.metadata,
     score    |-> score]

\* The hits in insertion order instead of by distance.
search_unranked(idx, stored, q, top_k) ==
    LET k == Min(top_k, Min(Len(idx), Len(stored)))
    IN  [p \in 1..k |-> Scored(stored[p], SquaredL2(idx[p].vec, q))]

\* FAISSVectorStore.search on the store <<idx, stored>>.
search(idx, stored, q, top_k) ==
    IF Len(idx) = 0 THEN <<>>
    ELSE LET hits == index_search(idx, q, Min(top_k, Len(idx)))
             kept == SelectSeq(hits, LAMBDA h : h.id < Len(stored))
         IN  [p \in 1..Len(kept) |-> Scored(stored[kept[p].id + 1], kept[p].distance)]

\* settings.top_k_results
SettingsTopK == 7

\* The query texts of the model, the vectors a direct caller searches with,
\* and the values of top_k: up to one more than the index can hold.
QueryTexts  == {<<"a">>, <<".", "a">>}
QueryVecs   == {Embed(t) : t \in QueryTexts}
TopKs       == 1..(MaxIndex + 1)
OptionalTopKs == {None, Some(0)} \cup {Some(k) : k \in TopKs}

SearchCall(level, query, top_k, embedded) ==
    Some([level |-> level, query |-> query, top_k |-> top_k, embedded |-> embedded])

\* A call vector_store.search(query_embedding, top_k).
VectorSearch(q, top_k) ==
    /\ found' = search(index, documents, q, top_k)
    /\ scall' = SearchCall("vector_store", q, top_k, FALSE)
    /\ sop' = StoreCall("search", "None", 0, 0)
    /\ sret' = <<>>
    /\ UNCHANGED <<index, documents, is_initialized, index_file, documents_file>>

\* rag_system.search without the readiness test.
RagSearch_unguarded(query, top_k, provider) ==
    /\ \E k \in {IF Truthy(top_k) THEN top_k[1] ELSE SettingsTopK} :
            /\ scall' = SearchCall("rag_system", query, k, TRUE)
            /\ IF provider = "fail"
               THEN /\ found' = <<>>
                    /\ sop' = StoreCall("search", "ValueError", 0, 0)
               ELSE /\ found' = search(index, documents, Embed(query), k)
                    /\ sop' = StoreCall("search", "None", 0, 0)
    /\ sret' = <<>>
    /\ UNCHANGED <<index, documents, is_initialized, index_file, documents_file>>

\* A call rag_system.search(query, top_k) with the embedding provider
\* behaving as `provider` says: "ok" or "fail" (generate_embedding raises).
RagSearch(query, top_k, provider) ==
    /\ IF ~is_initialized
       THEN /\ found' = <<>>
            /\ scall' = SearchCall("rag_system", query, SettingsTopK, FALSE)
            /\ sop' = StoreCall("search", "None", 0, 0)
       ELSE \E k \in {IF Truthy(top_k) THEN top_k[1] ELSE SettingsTopK} :
            /\ scall' = SearchCall("rag_system", query, k, TRUE)
            /\ IF provider = "fail"
               THEN /\ found' = <<>>
                    /\ sop' = StoreCall("search", "ValueError", 0, 0)
               ELSE /\ found' = search(index, documents, Embed(query), k)
                    /\ sop' = StoreCall("search", "None", 0, 0)
    /\ sret' = <<>>
    /\ UNCHANGED <<index, documents, is_initialized, index_file, documents_file>>

\* The call that ran was no search.
NoSearch ==
    /\ scall' = None
    /\ found' = <<>>

\* The call that ran wrote no file.
NoSave == UNCHANGED stamp

\* The call that ran was no ingest_documents.
NoIngest == ingested' = [paths |-> <<>>, provider |-> "none"]

\* Keeps `succeeded` in step with the call that ran.
Outcome ==
    succeeded' =
        CASE sop'.name = "init" -> FALSE
          [] sop'.name = "ingest_documents" /\ sop'.outcome = "None" -> TRUE
          [] sop'.name = "load_index" /\ sop'.outcome = "True" -> TRUE
          [] OTHER -> succeeded

(***************************************************************************)
(* AgentTools.calculate                                                    *)
(*                                                                         *)
(* A Python str is a sequence of one-character strings.  A returned str is *)
(* a sequence of pieces: the characters of a numeral, or "Error: "         *)
(* followed by the message of the exception.                               *)
(***************************************************************************)
Digits == <<"0", "1", "2", "3", "4", "5", "6", "7", "8", "9">>
DigitChars == {Digits[i] : i \in 1..Len(Digits)}
DigitValue(c) == (CHOOSE i \in 1..Len(Digits) : Digits[i] = c) - 1

\* A set of characters that also admits a letter.
allowed_chars_letter == DigitChars \cup {"+", "-", "*", "/", ".", "(", ")", " ", "a"}

\* allowed_chars = set("0123456789+-*/.() ")
allowed_chars == DigitChars \cup {"+", "-", "*", "/", ".", "(", ")", " "}

\* ---- Python values: int, float (an exact fraction p/q, q > 0), the empty
\* ---- tuple, and a raised exception.
PyInt(n)      == [t |-> "int", p |-> n, q |-> 1, msg |-> ""]
EmptyTuple  == [t |-> "tuple", p |-> 0, q |-> 1, msg |-> ""]
Raised(cls, msg) == [t |-> cls, p |-> 0, q |-> 1, msg |-> msg]
IsNumber(v) == v.t \in {"int", "float"}
IsRaised(v) == v.t \notin {"int", "float", "tuple"}

RECURSIVE Gcd(_, _)
Gcd(a, b) == IF b = 0 THEN a ELSE Gcd(b, a % b)

Abs(n) == IF n < 0 THEN 0 - n ELSE n

PyFloat(p, q) ==
    LET g == Gcd(Abs(p), q)
    IN  [t |-> "float", p |-> p \div g, q |-> q \div g, msg |-> ""]

SyntaxError  == Raised("SyntaxError", "invalid syntax")
NotCallable(v) == Raised("TypeError", "object is not callable")
BadOperand   == Raised("TypeError", "unsupported operand type(s)")
ZeroDivision == Raised("ZeroDivisionError", "division by zero")

\* The first exception raised when a and b are evaluated in this order and
\* then combined by an operator that takes numbers only.
Numeric(a, b, value) ==
    IF IsRaised(a) THEN a
    ELSE IF IsRaised(b) THEN b
    ELSE IF ~(IsNumber(a) /\ IsNumber(b)) THEN BadOperand
    ELSE value

BothInt(a, b) == a.t = "int" /\ b.t = "int"

\* a + b
Add(a, b) ==
    IF ~IsRaised(a) /\ ~IsRaised(b) /\ a.t = "tuple" /\ b.t = "tuple" THEN EmptyTuple
    ELSE Numeric(a, b, IF BothInt(a, b) THEN PyInt(a.p + b.p)
                       ELSE PyFloat(a.p * b.q + b.p * a.q, a.q * b.q))

\* a * b; a tuple times an int is a tuple
Mul(a, b) ==
    IF ~IsRaised(a) /\ ~IsRaised(b)
          /\ ((a.t = "tuple" /\ b.t = "int") \/ (a.t = "int" /\ b.t = "tuple"))
    THEN EmptyTuple
    ELSE Numeric(a, b, IF BothInt(a, b) THEN PyInt(a.p * b.p)
                       ELSE PyFloat(a.p * b.p, a.q * b.q))

\* a / b: true division always gives a float
TrueDiv(a, b) ==
    Numeric(a, b, IF b.p = 0 THEN ZeroDivision
                  ELSE PyFloat(a.p * b.q, a.q * b.p))

\* a // b
FloorDiv(a, b) ==
    Numeric(a, b, IF b.p = 0 THEN ZeroDivision
                  ELSE IF BothInt(a, b) THEN PyInt(a.p \div b.p)
                  ELSE PyFloat((a.p * b.q) \div (a.q * b.p), 1))

RECURSIVE IntPow(_, _)
IntPow(n, e) == IF e = 0 THEN 1 ELSE n * IntPow(n, e - 1)

\* a ** b for an exponent that is a whole number >= 0 (a fractional or
\* negative exponent needs a "-" or eight characters, which the expressions
\* of the model do not have).
Pow(a, b) ==
    Numeric(a, b, IF BothInt(a, b) THEN PyInt(IntPow(a.p, b.p))
                  ELSE PyFloat(IntPow(a.p, b.p \div b.q), IntPow(a.q, b.p \div b.q)))

\* +a
Pos(a) == IF IsRaised(a) THEN a ELSE IF IsNumber(a) THEN a ELSE BadOperand

\* ---- The tokenizer.  A token is [k, n]: k is "num" (n its value), "bad"
\* ---- (a numeral with a leading zero), "name", an operator or a bracket.
Token(k, n) == [k |-> k, n |-> n]

RECURSIVE NumberEnd(_, _)
NumberEnd(s, i) ==
    IF i <= Len(s) /\ s[i] \in DigitChars THEN NumberEnd(s, i + 1) ELSE i

RECURSIVE Decimal(_, _, _)
\* int of the digits s[i], ..., s[j - 1]
Decimal(s, i, j) ==
    IF j <= i THEN 0 ELSE Decimal(s, i, j - 1) * 10 + DigitValue(s[j - 1])

IsNameChar(c) == c \notin DigitChars \cup {"+", "*", "/", "(", ")", " "}

RECURSIVE NameEnd(_, _)
NameEnd(s, i) ==
    IF i <= Len(s) /\ (IsNameChar(s[i]) \/ s[i] \in DigitChars)
    THEN NameEnd(s, i + 1) ELSE i

RECURSIVE Tokenize(_, _)
Tokenize(s, i) ==
    IF i > Len(s) THEN <<>>
    ELSE IF s[i] = " " THEN Tokenize(s, i + 1)
    ELSE IF s[i] \in DigitChars
    THEN LET j == NumberEnd(s, i)
             leading == s[i] = "0" /\ \E k \in i..(j - 1) : s[k] /= "0"
             glued == j <= Len(s) /\ IsNameChar(s[j])
         IN  <<Token(IF leading \/ glued THEN "bad" ELSE "num", Decimal(s, i, j))>>
                 \o Tokenize(s, j)
    ELSE IF s[i] \in {"*", "/"} /\ i < Len(s) /\ s[i + 1] = s[i]
    THEN <<Token(IF s[i] = "*" THEN "**" ELSE "//", 0)>> \o Tokenize(s, i + 2)
    ELSE IF IsNameChar(s[i])
    THEN <<Token("name", 0)>> \o Tokenize(s, NameEnd(s, i))
    ELSE <<Token(s[i], 0)>> \o Tokenize(s, i + 1)

\* ---- The parser of eval, evaluating as it goes.  Each operator takes the
\* ---- tokens and a position and gives [ok, v, p]: whether the tokens from
\* ---- the position on start with the construct, its value (an exception
\* ---- raised by the evaluation travels as a value, so that a syntax error
\* ---- further on still wins), and the position after it.
Peek(ts, p) == IF p <= Len(ts) THEN ts[p].k ELSE "end"
Parsed(v, p) == [ok |-> TRUE, v |-> v, p |-> p]
Unparsed == [ok |-> FALSE, v |-> SyntaxError, p |-> 0]
The(S) == CHOOSE x \in S : TRUE

RECURSIVE Expr(_, _), ArithRest(_, _, _), Term(_, _), TermRest(_, _, _)
RECURSIVE Factor(_, _), Power(_, _), Primary(_, _), Trailers(_, _, _), Atom(_, _)

\* arith_expr: term ('+' term)*
Expr(ts, p) ==
    The({IF l.ok THEN ArithRest(ts, l.v, l.p) ELSE Unparsed : l \in {Term(ts, p)}})

ArithRest(ts, left, p) ==
    IF Peek(ts, p) = "+"
    THEN The({IF r.ok THEN ArithRest(ts, Add(left, r.v), r.p) ELSE Unparsed :
                 r \in {Term(ts, p + 1)}})
    ELSE Parsed(left, p)

\* term: factor (('*' | '/' | '//') factor)*
Term(ts, p) ==
    The({IF l.ok THEN TermRest(ts, l.v, l.p) ELSE Unparsed : l \in {Factor(ts, p)}})

TermRest(ts, left, p) ==
    IF Peek(ts, p) \in {"*", "/", "//"}
    THEN The({IF r.ok
              THEN TermRest(ts,
                            CASE Peek(ts, p) = "*" -> Mul(left, r.v)
                              [] Peek(ts, p) = "/" -> TrueDiv(left, r.v)
                              [] OTHER             -> FloorDiv(left, r.v),
                            r.p)
              ELSE Unparsed : r \in {Factor(ts, p + 1)}})
    ELSE Parsed(left, p)

\* factor: '+' factor | power
Factor(ts, p) ==
    IF Peek(ts, p) = "+"
    THEN The({IF r.ok THEN Parsed(Pos(r.v), r.p) ELSE Unparsed :
                 r \in {Factor(ts, p + 1)}})
    ELSE Power(ts, p)

\* power: primary ['**' factor]
Power(ts, p) ==
    The({IF ~l.ok THEN Unparsed
         ELSE IF Peek(ts, l.p) = "**"
         THEN The({IF r.ok THEN Parsed(Pow(l.v, r.v), r.p) ELSE Unparsed :
                      r \in {Factor(ts, l.p + 1)}})
         ELSE l : l \in {Primary(ts, p)}})

\* primary: atom trailer*
Primary(ts, p) ==
    The({IF l.ok THEN Trailers(ts, l.v, l.p) ELSE Unparsed : l \in {Atom(ts, p)}})

\* The value of a call: the callee, then the argument, then the call, which
\* no value of these expressions supports.
Call(f, arg) == IF IsRaised(f) THEN f ELSE IF IsRaised(arg) THEN arg ELSE NotCallable(f)

\* trailer: '(' [argument] ')', an argument being an expression, possibly
\* after '*' or '**'
Trailers(ts, f, p) ==
    IF Peek(ts, p) /= "(" THEN Parsed(f, p)
    ELSE IF Peek(ts, p + 1) = ")" THEN Trailers(ts, Call(f, EmptyTuple), p + 2)
    ELSE LET a == IF Peek(ts, p + 1) \in {"*", "**"} THEN p + 2 ELSE p + 1
         IN  The({IF r.ok /\ Peek(ts, r.p) = ")"
                  THEN Trailers(ts, Call(f, r.v), r.p + 1)
                  ELSE Unparsed : r \in {Expr(ts, a)}})

\* atom: NUMBER | NAME | '(' ')' | '(' expr ')'
Atom(ts, p) ==
    CASE Peek(ts, p) = "num"  -> Parsed(PyInt(ts[p].n), p + 1)
      [] Peek(ts, p) = "name" -> Parsed(Raised("NameError", "name is not defined"), p + 1)
      [] Peek(ts, p) = "("    ->
            IF Peek(ts, p + 1) = ")" THEN Parsed(EmptyTuple, p + 2)
            ELSE The({IF r.ok /\ Peek(ts, r.p) = ")" THEN Parsed(r.v, r.p + 1)
                      ELSE Unparsed : r \in {Expr(ts, p + 1)}})
      [] OTHER -> Unparsed

\* eval(expression, {"__builtins__": {}}, {}) of a str
eval(s) ==
    LET ts == Tokenize(s, 1)
    IN  The({IF r.ok /\ r.p = Len(ts) + 1 THEN r.v ELSE SyntaxError :
                r \in {Expr(ts, 1)}})

\* ---- str(result)
RECURSIVE IntText(_)
\* str of an int n >= 0
IntText(n) == IF n < 10 THEN <<Digits[n + 1]>> ELSE IntText(n \div 10) \o <<Digits[(n % 10) + 1]>>

\* The longest fraction str(float) is modelled with.
MaxFraction == 16

RECURSIVE FractionText(_, _, _)
\* The digits of r / q after the point, r < q: all of them when the
\* expansion ends, else the first MaxFraction of them (CPython prints the
\* shortest digits that read back as the same double, which agree with
\* these up to the last places).
FractionText(r, q, n) ==
    IF r = 0 \/ n = 0 THEN <<>>
    ELSE <<Digits[((r * 10) \div q) + 1]>> \o FractionText((r * 10) % q, q, n - 1)

\* str of a float p / q >= 0
FloatText(p, q) ==
    IntText(p \div q) \o <<".">>
        \o (IF p % q = 0 THEN <<"0">> ELSE FractionText(p % q, q, MaxFraction))

str(v) ==
    CASE v.t = "int"   -> IntText(v.p)
      [] v.t = "float" -> FloatText(v.p, v.q)
      [] v.t = "tuple" -> <<"(", ")">>

\* f"Error: {str(e)}"
ErrorText(msg) == <<"Error: ", msg>>

\* ---- The arguments of the model: every str over CalcChars of up to
\* ---- MaxExpr characters, the two expressions of the test suite, and
\* ---- values that are no str.
CalcChars == {"0", "1", "2", "+", "*", "/", "(", ")", " ", "a"}
Str(chars)  == [type |-> "str", chars |-> chars]
NotStr(type, chars) == [type |-> type, chars |-> chars]
TwoPlusTwo  == Str(<<"2", " ", "+", " ", "2">>)
TenTimesFive == Str(<<"1", "0", " ", "*", " ", "5">>)
CalcInputs ==
    {Str(s) : s \in UNION {[1..n -> CalcChars] : n \in 0..MaxExpr}}
        \cup {TwoPlusTwo, TenTimesFive}
        \cup {NotStr("NoneType", <<>>), NotStr("int", <<>>),
              NotStr("list", <<"1", "+", "1">>), NotStr("list", <<"a">>)}

\* The call calculate(expression) is made.
CalcInit ==
    /\ expression \in CalcInputs
    /\ kpc = "call"
    /\ evaluated = FALSE
    /\ cret = <<>>

CalcIdle ==
    /\ expression = Str(<<>>)
    /\ kpc = "idle"
    /\ evaluated = FALSE
    /\ cret = <<>>

\* if not all(c in allowed_chars for c in expression): return "Error: ..."
\* Iterating over a value that is not iterable raises TypeError, which the
\* except clause turns into an error string.
CalcCheck ==
    /\ kpc = "call"
    /\ IF expression.type \in {"NoneType", "int"}
       THEN /\ cret' = ErrorText("object is not iterable")
            /\ kpc' = "done"
       ELSE IF \E i \in 1..Len(expression.chars) : expression.chars[i] \notin allowed_chars
       THEN /\ cret' = ErrorText("Invalid characters in expression")
            /\ kpc' = "done"
       ELSE /\ cret' = cret
            /\ kpc' = "eval"
    /\ UNCHANGED <<expression, evaluated>>

\* result = eval(expression, ...); return str(result), or the except clause
CalcEval ==
    /\ kpc = "eval"
    /\ evaluated' = TRUE
    /\ \E v \in {IF expression.type = "str" THEN eval(expression.chars)
                 ELSE Raised("TypeError", "eval() arg 1 must be a string")} :
          cret' = IF IsRaised(v) THEN ErrorText(v.msg) ELSE str(v)
    /\ kpc' = "done"
    /\ UNCHANGED expression

(***************************************************************************)
(* AIAgent._execute_tool, AIAgent._should_use_rag, AIAgent.process_query   *)
(*                                                                         *)
(* A str value is Str(pieces), its text being the pieces joined; None is   *)
(* PyNone.  The chat completion endpoint and the retrieval engine are the  *)
(* environment: each call of them is given its outcome by the step.        *)
(***************************************************************************)
PyNone == NotStr("NoneType", <<>>)

\* AgentTools.calculate as one function of its argument.
calculate(x) ==
    IF x.type \in {"NoneType", "int"} THEN ErrorText("object is not iterable")
    ELSE IF \E i \in 1..Len(x.chars) : x.chars[i] \notin allowed_chars
    THEN ErrorText("Invalid characters in expression")
    ELSE IF x.type /= "str" THEN ErrorText("eval() arg 1 must be a string")
    ELSE The({IF IsRaised(v) THEN ErrorText(v.msg) ELSE str(v) : v \in {eval(x.chars)}})

\* AgentTools.search_documents(query, rag_system); `outcome` is what
\* rag_system.search does: "empty" (returns []), "hits" or "raises".
search_documents(query, outcome) ==
    CASE outcome = "raises" -> <<"Error searching documents: ", "Error generating embedding">>
      [] outcome = "empty"  -> <<"No relevant documents found.">>
      [] OTHER              -> <<"1. ", "content[:200]", "... (Source: ", "source", ")">>

\* ---- json.loads.  A text is held as its pieces: the brackets, colon,
\* ---- comma and the two quote characters are pieces of their own, every
\* ---- other piece is a run of characters free of them and of white space.
Dict(pairs) == [type |-> "dict", pairs |-> pairs]
List(items) == [type |-> "list", items |-> items]

At(ts, p) == IF p <= Len(ts) THEN ts[p] ELSE ""
Decoded(v, p) == [ok |-> TRUE, v |-> v, p |-> p]
Undecoded == [ok |-> FALSE, v |-> PyNone, p |-> 0]

\* the position of the next double quote from p on, 0 if there is none
RECURSIVE QuoteEnd(_, _)
QuoteEnd(ts, p) ==
    IF p > Len(ts) THEN 0 ELSE IF ts[p] = "\"" THEN p ELSE QuoteEnd(ts, p + 1)

\* string: '"' pieces '"', at an opening quote
JsonString(ts, p) ==
    The({IF e = 0 THEN Undecoded ELSE Decoded(Str(SubSeq(ts, p + 1, e - 1)), e + 1) :
            e \in {QuoteEnd(ts, p + 1)}})

RECURSIVE JsonValue(_, _), JsonMembers(_, _, _), JsonItems(_, _, _)

\* value: object | array | string | number | null
JsonValue(ts, p) ==
    CASE At(ts, p) = "{" ->
            IF At(ts, p + 1) = "}" THEN Decoded(Dict(<<>>), p + 2)
            ELSE JsonMembers(ts, <<>>, p + 1)
      [] At(ts, p) = "[" ->
            IF At(ts, p + 1) = "]" THEN Decoded(List(<<>>), p + 2)
            ELSE JsonItems(ts, <<>>, p + 1)
      [] At(ts, p) = "\"" -> JsonString(ts, p)
      [] At(ts, p) \in DigitChars -> Decoded(NotStr("int", <<ts[p]>>), p + 1)
      [] At(ts, p) = "null" -> Decoded(PyNone, p + 1)
      [] OTHER -> Undecoded

\* members: string ':' value (',' string ':' value)* '}'
JsonMembers(ts, pairs, p) ==
    IF At(ts, p) /= "\"" THEN Undecoded
    ELSE The({IF ~k.ok \/ At(ts, k.p) /= ":" THEN Undecoded
              ELSE The({IF ~v.ok THEN Undecoded
                        ELSE IF At(ts, v.p) = ","
                        THEN JsonMembers(ts, Append(pairs, [k |-> k.v.chars, v |-> v.v]),
                                         v.p + 1)
                        ELSE IF At(ts, v.p) = "}"
                        THEN Decoded(Dict(Append(pairs, [k |-> k.v.chars, v |-> v.v])),
                                     v.p + 1)
                        ELSE Undecoded : v \in {JsonValue(ts, k.p + 1)}}) :
                 k \in {JsonString(ts, p)}})

\* items: value (',' value)* ']'
JsonItems(ts, items, p) ==
    The({IF ~v.ok THEN Undecoded
         ELSE IF At(ts, v.p) = "," THEN JsonItems(ts, Append(items, v.v), v.p + 1)
         ELSE IF At(ts, v.p) = "]" THEN Decoded(List(Append(items, v.v)), v.p + 1)
         ELSE Undecoded : v \in {JsonValue(ts, p)}})

\* json.loads(s): [ok, value]; ok = FALSE stands for JSONDecodeError
\* (nothing decodable, or data after the value).
json_loads(ts) ==
    The({IF r.ok /\ r.p = Len(ts) + 1
         THEN [ok |-> TRUE, value |-> r.v]
         ELSE [ok |-> FALSE, value |-> PyNone] : r \in {JsonValue(ts, 1)}})

\* key in d, d[key] of a dict; a later pair of the same key wins
HasKey(d, key) == \E i \in 1..Len(d.pairs) : d.pairs[i].k = <<key>>
Lookup(d, key) ==
    d.pairs[CHOOSE i \in 1..Len(d.pairs) :
                /\ d.pairs[i].k = <<key>>
                /\ \A j \in (i + 1)..Len(d.pairs) : d.pairs[j].k /= <<key>>].v

\* The argument texts a tool call of the model carries.
Quoted(pieces) == <<"\"">> \o pieces \o <<"\"">>
Member(key, value) == Quoted(<<key>>) \o <<":">> \o value
ArgsExpression == <<"{">> \o Member("expression", Quoted(<<"1", "/", "0">>)) \o <<"}">>
ArgsQuery      == <<"{">> \o Member("query", Quoted(<<"leave">>)) \o <<"}">>
ArgsEmpty      == <<"{", "}">>
ArgsTruncated  == <<"{">> \o Member("expression", <<>>)
ArgsList       == <<"[">> \o Quoted(<<"1", "+", "1">>) \o <<"]">>

\* arguments.get(key, default): AttributeError unless arguments is a dict
Get(arguments, key, default) ==
    IF arguments.type /= "dict"
    THEN [raised |-> TRUE, value |-> default]
    ELSE [raised |-> FALSE,
          value  |-> IF HasKey(arguments, key) THEN Lookup(arguments, key) ELSE default]

Returned(pieces) == [raised |-> FALSE, value |-> Str(pieces)]
AttributeError   == [raised |-> TRUE, value |-> Str(<<"object has no attribute 'get'">>)]

\* AIAgent._execute_tool: [raised, value].  rag_system is "None" or
\* "RAGSystem"; outcome is what rag_system.search does when it is called.
execute_tool(tool_name, arguments, rag, outcome) ==
    CASE tool_name = "get_current_time" -> Returned(<<"%Y-%m-%d %H:%M:%S UTC">>)
      [] tool_name = "calculate" ->
            The({IF a.raised THEN AttributeError ELSE Returned(calculate(a.value)) :
                    a \in {Get(arguments, "expression", Str(<<>>))}})
      [] tool_name = "search_documents" ->
            IF rag = "None"
            THEN Returned(<<"Document search is not available. RAG system not initialized.">>)
            ELSE The({IF a.raised THEN AttributeError
                      ELSE Returned(search_documents(a.value, outcome)) :
                         a \in {Get(arguments, "query", Str(<<>>))}})
      [] OTHER -> Returned(<<"Unknown tool: ", tool_name>>)

\* The queries of the model: one naming a document topic in capitals, one
\* that names none, and a value that is no str.
QueryVacation == Str(<<"VACATION days?">>)
QueryHello    == Str(<<"hello">>)
Queries       == {QueryVacation, QueryHello, PyNone}

\* query.lower() on the texts of the model
QueryLower(pieces) == IF pieces = <<"VACATION days?">> THEN <<"vacation days?">> ELSE pieces

\* AIAgent._should_use_rag: [raised, value]; a value without a method
\* lower raises AttributeError.
should_use_rag(query) ==
    IF query.type /= "str"
    THEN [raised |-> TRUE, value |-> FALSE]
    ELSE [raised |-> FALSE, value |-> QueryLower(query.chars) \in {<<"vacation days?">>}]

\* limit=10 of the get_context_messages call
ContextLimit == 10

SystemMessage(should_search) ==
    [role    |-> "system",
     content |-> Str(IF should_search THEN <<"system_content", "IMPORTANT: ... use the 'search_documents' tool">>
                     ELSE <<"system_content">>)]

\* The tool calls a completion may carry.
ToolCall(name, arguments) == [name |-> name, arguments |-> arguments]
ToolCalls ==
    {ToolCall("get_current_time", ArgsEmpty),
     ToolCall("get_current_time", ArgsList),
     ToolCall("calculate", ArgsExpression),
     ToolCall("calculate", ArgsTruncated),
     ToolCall("calculate", ArgsList),
     ToolCall("search_documents", ArgsQuery),
     ToolCall("search_documents", ArgsList),
     ToolCall("get_weather", ArgsEmpty)}

\* ---- The texts of a first completion.
\* A tool invocation as a model writes it into its text.
CallJson(name, arguments) ==
    <<"{">> \o Member("name", Quoted(<<name>>)) \o <<",">>
        \o Member("arguments", arguments) \o <<"}">>

\* double quotes written as single quotes
SingleQuoted(ts) == [i \in 1..Len(ts) |-> IF ts[i] = "\"" THEN "'" ELSE ts[i]]

\* the pieces ```json and ``` of a fenced block (named, since a string of
\* this language cannot hold a backquote)
FenceJson == "<fence>json"
Fence     == "<fence>"

\* plain text
ContentPlain == Str(<<"Hello!">>)
\* a search_documents invocation embedded in prose
ContentManual ==
    Str(<<"Let", "me", "check.">> \o CallJson("search_documents", ArgsQuery)
            \o <<"One", "moment.">>)
\* the same in a fenced block, as a list of one OpenAI style function object
ContentWrapped ==
    Str(<<FenceJson, "[", "{">> \o Member("type", Quoted(<<"function">>)) \o <<",">>
            \o Member("function", CallJson("search_documents", ArgsQuery))
            \o <<"}", "]", Fence>>)
\* the same written with single quotes
ContentSingleQuotes == Str(SingleQuoted(CallJson("search_documents", ArgsQuery)))
\* the arguments given as a string that holds a dict in single quotes
ContentQuotedArgs ==
    Str(CallJson("search_documents", Quoted(SingleQuoted(ArgsQuery))))
\* a calculate invocation embedded in prose
ContentCalculate ==
    Str(<<"Let", "me", "compute.">> \o CallJson("calculate", ArgsExpression))
\* a search_documents invocation after prose that holds a brace pair
ContentBraces ==
    Str(<<"Calling", "{", "tool", "}", "now:">> \o CallJson("search_documents", ArgsQuery))
\* the tool named next to an unclosed brace: no JSON substring
ContentBroken == Str(<<"I", "will", "call", "search_documents", "{">>)
\* a brace pair that is no JSON
ContentInvalid == Str(<<"search_documents", "{", "leave", "}">>)
\* an empty list
ContentEmptyList == Str(<<"search_documents", "[", "]">>)
\* a list of a number: no object
ContentNumber == Str(<<"search_documents", "[", "1", "]">>)
\* an invocation of another name in a text that mentions search_documents
ContentOtherName ==
    Str(<<"No", "search_documents", "here:">> \o CallJson("get_weather", ArgsEmpty))
\* the arguments given as a string that is no JSON
ContentStringArgs == Str(CallJson("search_documents", Quoted(<<"leave">>)))

Contents1 ==
    {ContentPlain, ContentManual, ContentWrapped, ContentSingleQuotes, ContentQuotedArgs,
     ContentCalculate, ContentBraces, ContentBroken, ContentInvalid, ContentEmptyList,
     ContentNumber, ContentOtherName, ContentStringArgs, PyNone}

\* message.content of a final completion
ContentFinal  == Str(<<"You have 25 days.">>)

\* The first completion's message: [content, tool_calls], each tool call
\* with an id of its own.
FirstMessages ==
    {[content |-> c, tool_calls |-> <<>>] : c \in Contents1}
        \cup {[content |-> PyNone,
               tool_calls |-> [i \in 1..Len(tcs) |->
                                  [id |-> i, name |-> tcs[i].name,
                                   arguments |-> tcs[i].arguments]]] :
                 tcs \in SeqsUpTo(ToolCalls, MaxToolCalls) \ {<<>>}}

\* message.content and "search_documents" in message.content
\*     and ("{" in message.content or "[" in message.content)
MentionsToolAndBrace(content) ==
    /\ content.type = "str"
    /\ content.chars /= <<>>
    /\ \E i \in 1..Len(content.chars) : content.chars[i] = "search_documents"
    /\ \E i \in 1..Len(content.chars) : content.chars[i] \in {"{", "["}

\* content.replace("```json", "").replace("```", "").strip()
StripFences(ts) == SelectSeq(ts, LAMBDA t : t \notin {FenceJson, Fence})

\* re.search(r'(\{.*\}|\[.*\])', content, re.DOTALL): the match starts at
\* the first bracket that has a closing one after it and runs to the last
\* such closing bracket; None when there is no match.
Closing(t) == IF t = "{" THEN "}" ELSE "]"
re_search(ts) ==
    LET starts == {p \in 1..Len(ts) :
                      /\ ts[p] \in {"{", "["}
                      /\ \E q \in (p + 1)..Len(ts) : ts[q] = Closing(ts[p])}
    IN  IF starts = {} THEN None
        ELSE LET p == CHOOSE x \in starts : \A y \in starts : x <= y
                 ends == {q \in (p + 1)..Len(ts) : ts[q] = Closing(ts[p])}
                 q == CHOOSE x \in ends : \A y \in ends : y <= x
             IN  Some(SubSeq(ts, p, q))

\* s.replace("'", '"')
ReplaceQuotes(ts) == [i \in 1..Len(ts) |-> IF ts[i] = "'" THEN "\"" ELSE ts[i]]

\* if "'" in json_str and '"' not in json_str: json_str = json_str.replace("'", '"')
FixQuotes(ts) ==
    IF (\E i \in 1..Len(ts) : ts[i] = "'") /\ ~(\E i \in 1..Len(ts) : ts[i] = "\"")
    THEN ReplaceQuotes(ts) ELSE ts

\* word in x: TypeError for a number and for None
NotIterable(x) == x.type \in {"int", "NoneType"}
Contains(x, word) ==
    CASE x.type = "dict" -> HasKey(x, word)
      [] x.type = "list" -> \E i \in 1..Len(x.items) : x.items[i] = Str(<<word>>)
      [] OTHER           -> \E i \in 1..Len(x.chars) : x.chars[i] = word

\* What the fallback recovers from the text: [call, arguments]; call is
\* FALSE when the branch ends in `answer = message.content`.
Recovered(arguments) == [call |-> TRUE, arguments |-> arguments]
NotRecovered == [call |-> FALSE, arguments |-> PyNone]

\* if isinstance(function_args, str): try json.loads(...) except: pass
StringArguments(a) ==
    IF a.type /= "str" THEN a
    ELSE The({IF d.ok THEN d.value ELSE a : d \in {json_loads(ReplaceQuotes(a.chars))}})

\* The steps from the decoded tool_data to function_args.  A list gives its
\* first element (IndexError when empty), a "function" member is unwrapped,
\* the name is compared; a TypeError of `in` or of a subscript is caught by
\* the inner handler.
Recognise(tool_data) ==
    IF tool_data.type = "list" /\ tool_data.items = <<>> THEN NotRecovered
    ELSE LET one == IF tool_data.type = "list" THEN tool_data.items[1] ELSE tool_data
         IN  IF NotIterable(one) THEN NotRecovered
             ELSE IF Contains(one, "function") /\ one.type /= "dict" THEN NotRecovered
             ELSE LET call == IF Contains(one, "function") THEN Lookup(one, "function")
                              ELSE one
                  IN  IF NotIterable(call) THEN NotRecovered
                      ELSE IF ~Contains(call, "name") THEN NotRecovered
                      ELSE IF call.type /= "dict" THEN NotRecovered
                      ELSE IF Lookup(call, "name") /= Str(<<"search_documents">>)
                      THEN NotRecovered
                      ELSE Recovered(StringArguments(
                               IF HasKey(call, "arguments") THEN Lookup(call, "arguments")
                               ELSE Dict(<<>>)))

ManualArguments_always(content) == Recovered(Dict(<<>>))

\* The fallback parsing of the content, up to the call of _execute_tool
ManualArguments(content) ==
    The({IF json_match = None THEN NotRecovered
         ELSE The({IF d.ok THEN Recognise(d.value) ELSE NotRecovered :
                      d \in {json_loads(FixQuotes(json_match[1]))}}) :
            json_match \in {re_search(StripFences(content.chars))}})

Raise(at, cls) == Some([at |-> at, cls |-> cls])

\* AIAgent.__init__: no query has been made.
AgentInit ==
    /\ rag_system \in {"None", "RAGSystem"}
    /\ qpc = "idle"
    /\ qargs = [query |-> QueryHello, session_id |-> "s1", use_tools |-> TRUE]
    /\ messages = <<>>
    /\ first = None
    /\ ti = 1
    /\ tool_calls_made = <<>>
    /\ sources = <<>>
    /\ answer = PyNone
    /\ qresult = None
    /\ exc = None
    /\ completions = <<>>
    /\ entry = <<>>
    /\ events = <<>>
    /\ queries = 0

AgentIdle ==
    /\ rag_system = "None"
    /\ qpc = "idle"
    /\ qargs = [query |-> QueryHello, session_id |-> "s1", use_tools |-> TRUE]
    /\ messages = <<>>
    /\ first = None
    /\ ti = 1
    /\ tool_calls_made = <<>>
    /\ sources = <<>>
    /\ answer = PyNone
    /\ qresult = None
    /\ exc = None
    /\ completions = <<>>
    /\ entry = <<>>
    /\ events = <<>>
    /\ queries = 0

\* The memory call the orchestrator makes, with the history variables of
\* the memory kept in step.
Remember(role, content, metadata) ==
    /\ sessions' = add_message(sessions, qargs.session_id, role, content, metadata)
    /\ appended' = [appended EXCEPT ![qargs.session_id] = Append(@, <<role, content>>)]
    /\ op' = [name |-> "add_message", sid |-> qargs.session_id, limit |-> None]
    /\ ret' = <<>>

\* A call process_query(query, session_id, use_tools) is made.
QueryCall(query, session_id, use_tools) ==
    /\ qpc \in {"idle", "returned", "raised"}
    /\ queries < MaxQueries
    /\ queries' = queries + 1
    /\ qargs' = [query |-> query, session_id |-> session_id, use_tools |-> use_tools]
    /\ entry' = get_history(sessions, session_id, None)
    /\ qpc' = "called"
    /\ messages' = <<>>
    /\ first' = None
    /\ ti' = 1
    /\ tool_calls_made' = <<>>
    /\ sources' = <<>>
    /\ answer' = PyNone
    /\ qresult' = None
    /\ exc' = None
    /\ completions' = <<>>
    /\ events' = <<>>
    /\ UNCHANGED <<rag_system, memVars>>

\* self.memory.add_message(session_id, "user", query)
QueryRemember ==
    /\ qpc = "called"
    /\ Remember("user", qargs.query, "None")
    /\ events' = Append(events, "user")
    /\ qpc' = "route"
    /\ UNCHANGED <<rag_system, qargs, messages, first, ti, tool_calls_made, sources,
                   answer, qresult, exc, completions, entry, queries>>

\* should_search = self._should_use_rag(query), the system prompt, the
\* context messages: the statements before the try block.  An exception
\* here leaves process_query.
QueryRoute ==
    /\ qpc = "route"
    /\ \E hint \in {should_use_rag(qargs.query)} :
          IF hint.raised
          THEN /\ exc' = Raise("route", "AttributeError")
               /\ qpc' = "raised"
               /\ UNCHANGED messages
          ELSE /\ messages' = <<SystemMessage(hint.value)>>
                     \o get_context_messages(sessions, qargs.session_id, ContextLimit)
               /\ qpc' = "first"
               /\ UNCHANGED exc
    /\ UNCHANGED <<rag_system, qargs, first, ti, tool_calls_made, sources, answer,
                   qresult, completions, entry, events, queries, memVars>>

\* A completion request as the history keeps it: whether the tool schemas
\* went with it, the messages sent, and the text of the reply (None when
\* the request raised).
Completion(tools, reply) == [tools |-> tools, messages |-> messages, reply |-> reply]

\* response = self.client.chat.completions.create(..., tools=...) and the
\* branch taken on its message; fault = TRUE when the call raises.
FirstCompletion(fault, message) ==
    /\ qpc = "first"
    /\ completions' = Append(completions,
                              Completion(qargs.use_tools,
                                         IF fault THEN None ELSE Some(message.content)))
    /\ events' = Append(events, "completion")
    /\ IF fault
       THEN /\ exc' = Raise("first", "APIError")
            /\ qpc' = "except"
            /\ UNCHANGED <<first, messages, answer>>
       ELSE /\ message.tool_calls /= <<>> => qargs.use_tools
            /\ first' = Some(message)
            /\ UNCHANGED exc
            /\ IF message.tool_calls /= <<>>
               THEN /\ messages' = Append(messages,
                                          [role       |-> "assistant",
                                           content    |-> message.content,
                                           tool_calls |-> message.tool_calls])
                    /\ qpc' = "tools"
                    /\ UNCHANGED answer
               ELSE IF MentionsToolAndBrace(message.content)
               THEN /\ qpc' = "fallback"
                    /\ UNCHANGED <<messages, answer>>
               ELSE /\ answer' = message.content
                    /\ qpc' = "finalize"
                    /\ UNCHANGED messages
    /\ UNCHANGED <<rag_system, qargs, ti, tool_calls_made, sources, qresult, entry,
                   queries, memVars>>

ToolRecord(name, arguments, tool_result) ==
    [tool |-> name, arguments |-> arguments, result |-> tool_result]

\* One round of `for tool_call in message.tool_calls`; `outcome` is what
\* rag_system.search does if it is called.
ToolStep(outcome) ==
    /\ qpc = "tools"
    /\ ti <= Len(first[1].tool_calls)
    /\ \E tool_call \in {first[1].tool_calls[ti]} :
       \E decoded \in {json_loads(tool_call.arguments)} :
       \E function_args \in {decoded.value} :
          IF ~decoded.ok
          THEN /\ exc' = Raise("tools", "JSONDecodeError")
               /\ qpc' = "except"
               /\ UNCHANGED <<ti, tool_calls_made, messages, sources, events>>
          ELSE \E r \in {execute_tool(tool_call.name, function_args, rag_system, outcome)} :
               IF r.raised
               THEN /\ events' = Append(events, "tool")
                    /\ exc' = Raise("tools", "AttributeError")
                    /\ qpc' = "except"
                    /\ UNCHANGED <<ti, tool_calls_made, messages, sources>>
               ELSE /\ events' = Append(events, "tool")
                    /\ tool_calls_made' = Append(tool_calls_made,
                                                 ToolRecord(tool_call.name, function_args,
                                                            r.value))
                    /\ messages' = Append(messages,
                                          [role         |-> "tool",
                                           tool_call_id |-> tool_call.id,
                                           content      |-> r.value])
                    /\ IF tool_call.name /= "search_documents"
                       THEN /\ ti' = ti + 1
                            /\ UNCHANGED <<sources, exc, qpc>>
                       ELSE \E q \in {Get(function_args, "query", PyNone)} :
                            IF q.raised
                            THEN /\ exc' = Raise("tools", "AttributeError")
                                 /\ qpc' = "except"
                                 /\ UNCHANGED <<ti, sources>>
                            ELSE /\ sources' = Append(sources, <<"Document search: ", q.value>>)
                                 /\ ti' = ti + 1
                                 /\ UNCHANGED <<exc, qpc>>
    /\ UNCHANGED <<rag_system, qargs, first, answer, qresult, completions, entry,
                   queries, memVars>>

Reground == [role |-> "user", content |-> Str(<<"SYSTEM INSTRUCTION: ... DO NOT output any JSON.">>)]

\* After the loop: the re-grounding message and the second completion.
SecondCompletion(fault) ==
    /\ qpc = "tools"
    /\ ti > Len(first[1].tool_calls)
    /\ messages' = Append(messages, Reground)
    /\ completions' = Append(completions,
                              [tools    |-> FALSE,
                               messages |-> messages',
                               reply    |-> IF fault THEN None ELSE Some(ContentFinal)])
    /\ events' = Append(events, "completion")
    /\ IF fault
       THEN /\ exc' = Raise("second", "APIError")
            /\ qpc' = "except"
            /\ UNCHANGED answer
       ELSE /\ answer' = ContentFinal
            /\ qpc' = "finalize"
            /\ UNCHANGED exc
    /\ UNCHANGED <<rag_system, qargs, first, ti, tool_calls_made, sources, qresult,
                   entry, queries, memVars>>

\* The fallback branch up to the messages it appends: a search_documents
\* call spelled out in the content is executed.  Whatever fails is caught
\* inside the branch, and the content becomes the answer.
FallbackTool(outcome) ==
    /\ qpc = "fallback"
    /\ \E m \in {ManualArguments(first[1].content)} :
          IF ~m.call
          THEN /\ answer' = first[1].content
               /\ qpc' = "finalize"
               /\ UNCHANGED <<tool_calls_made, sources, messages, events>>
          ELSE \E r \in {execute_tool("search_documents", m.arguments, rag_system, outcome)},
                  q \in {Get(m.arguments, "query", PyNone)} :
               IF r.raised
               THEN /\ events' = Append(events, "tool")
                    /\ answer' = first[1].content
                    /\ qpc' = "finalize"
                    /\ UNCHANGED <<tool_calls_made, sources, messages>>
               ELSE /\ events' = Append(events, "tool")
                    /\ tool_calls_made' = Append(tool_calls_made,
                                                 ToolRecord("search_documents", m.arguments,
                                                            r.value))
                    /\ IF q.raised
                       THEN /\ answer' = first[1].content
                            /\ qpc' = "finalize"
                            /\ UNCHANGED <<sources, messages>>
                       ELSE /\ sources' = Append(sources, <<"Document search: ", q.value>>)
                            /\ messages' = messages \o
                                  <<[role |-> "assistant", content |-> first[1].content],
                                    [role    |-> "user",
                                     content |-> Str(<<"SYSTEM: The tool returned the following information: ">>
                                                        \o r.value.chars
                                                        \o <<"INSTRUCTION: ... DO NOT output any JSON.">>)]>>
                            /\ qpc' = "reask"
                            /\ UNCHANGED answer
    /\ UNCHANGED <<rag_system, qargs, first, ti, qresult, exc, completions, entry,
                   queries, memVars>>

\* The final completion of the fallback branch; a fault of it is caught
\* inside the branch too.
FallbackCompletion(fault) ==
    /\ qpc = "reask"
    /\ completions' = Append(completions, Completion(FALSE, IF fault THEN None ELSE Some(ContentFinal)))
    /\ events' = Append(events, "completion")
    /\ answer' = IF fault THEN first[1].content ELSE ContentFinal
    /\ qpc' = "finalize"
    /\ UNCHANGED <<rag_system, qargs, messages, first, ti, tool_calls_made, sources,
                   qresult, exc, entry, queries, memVars>>

\* self.memory.add_message(session_id, "assistant", answer, {...}) and the
\* return of the result.
QueryFinalize ==
    /\ qpc = "finalize"
    /\ Remember("assistant", answer, "{tool_calls, sources}")
    /\ qresult' = Some([answer     |-> answer,
                        sources    |-> sources,
                        tool_calls |-> tool_calls_made,
                        session_id |-> qargs.session_id,
                        timestamp  |-> "utcnow"])
    /\ events' = events \o <<"assistant", "return">>
    /\ qpc' = "returned"
    /\ UNCHANGED <<rag_system, qargs, messages, first, ti, tool_calls_made, sources,
                   answer, exc, completions, entry, queries>>

QueryExcept_anonymous ==
    /\ qpc = "except"
    /\ \E error_msg \in {Str(<<"Error processing query: ", exc[1].cls>>)} :
          /\ Remember("assistant", error_msg, "{error}")
          /\ qresult' = Some([answer     |-> error_msg,
                              sources    |-> <<>>,
                              tool_calls |-> <<>>,
                              session_id |-> "default",
                              error      |-> exc[1].cls])
    /\ events' = events \o <<"assistant", "return">>
    /\ qpc' = "returned"
    /\ UNCHANGED <<rag_system, qargs, messages, first, ti, tool_calls_made, sources,
                   answer, exc, completions, entry, queries>>

\* except Exception as e: the error message is remembered and the error
\* result returned.
QueryExcept ==
    /\ qpc = "except"
    /\ \E error_msg \in {Str(<<"Error processing query: ", exc[1].cls>>)} :
          /\ Remember("assistant", error_msg, "{error}")
          /\ qresult' = Some([answer     |-> error_msg,
                              sources    |-> <<>>,
                              tool_calls |-> <<>>,
                              session_id |-> qargs.session_id,
                              error      |-> exc[1].cls])
    /\ events' = events \o <<"assistant", "return">>
    /\ qpc' = "returned"
    /\ UNCHANGED <<rag_system, qargs, messages, first, ti, tool_calls_made, sources,
                   answer, exc, completions, entry, queries>>


NextStore ==
    \/ \E args \in AddInputs :
          AddDocuments(args[1], args[2]) /\ NoSearch /\ NoSave /\ NoIngest /\ Outcome
              /\ Called /\ UNCHANGED <<callVars, memVars, chunkVars, calcVars, agentVars>>
    \/ \E paths \in PathLists, provider \in {"ok", "fail", "short"} :
          IngestDocuments(paths, provider) /\ NoSearch /\ NoSave /\ Outcome
              /\ Called /\ UNCHANGED <<callVars, memVars, chunkVars, calcVars, agentVars>>
    \/ \E fault \in {"none", "write_index", "open", "dump"} :
          SaveIndex(fault) /\ NoSearch /\ NoIngest /\ Outcome
              /\ Called /\ UNCHANGED <<callVars, memVars, chunkVars, calcVars, agentVars>>
    \/ LoadIndex /\ NoSearch /\ NoSave /\ NoIngest /\ Outcome
              /\ Called /\ UNCHANGED <<callVars, memVars, chunkVars, calcVars, agentVars>>
    \/ Restart /\ NoSearch /\ NoSave /\ NoIngest /\ Outcome
              /\ Called /\ UNCHANGED <<callVars, memVars, chunkVars, calcVars, agentVars>>
    \/ \E q \in QueryVecs, top_k \in TopKs :
          VectorSearch(q, top_k) /\ NoSave /\ NoIngest /\ Outcome
              /\ Called /\ UNCHANGED <<callVars, memVars, chunkVars, calcVars, agentVars>>
    \/ \E query \in QueryTexts, top_k \in OptionalTopKs, provider \in {"ok", "fail"} :
          RagSearch(query, top_k, provider) /\ NoSave /\ NoIngest /\ Outcome
              /\ Called /\ UNCHANGED <<callVars, memVars, chunkVars, calcVars, agentVars>>

InitStore == MemInit /\ ChunkIdle /\ StoreInit /\ CalcIdle /\ AgentIdle /\ CallIdle

SpecStore == InitStore /\ [][NextStore]_vars

NextChunk ==
    \/ ChunkEnter /\ UNCHANGED <<callVars, memVars, storeVars, calcVars, agentVars>>
    \/ ChunkStep /\ UNCHANGED <<callVars, memVars, storeVars, calcVars, agentVars>>
    \/ ChunkExhaust /\ UNCHANGED <<callVars, memVars, storeVars, calcVars, agentVars>>
    \/ ChunkReturn /\ UNCHANGED <<callVars, memVars, storeVars, calcVars, agentVars>>

InitChunk == MemInit /\ ChunkInit /\ StoreIdle /\ CalcIdle /\ AgentIdle /\ CallIdle

SpecChunk == InitChunk /\ [][NextChunk]_vars

NextMemory ==
    \/ \E sid \in SessionIds, role \in Roles, content \in Contents, m \in MetaArgs :
          AddMessage(sid, role, content, m) /\ UNCHANGED <<callVars, chunkVars, storeVars, calcVars, agentVars>>
    \/ \E sid \in SessionIds, limit \in Limits :
          GetHistory(sid, limit) /\ UNCHANGED <<callVars, chunkVars, storeVars, calcVars, agentVars>>
    \/ \E sid \in SessionIds :
          ClearSession(sid) /\ UNCHANGED <<callVars, chunkVars, storeVars, calcVars, agentVars>>

InitMemory == MemInit /\ ChunkIdle /\ StoreIdle /\ CalcIdle /\ AgentIdle /\ CallIdle

SpecMemory == InitMemory /\ [][NextMemory]_vars

NextCalc ==
    \/ CalcCheck /\ UNCHANGED <<callVars, memVars, chunkVars, storeVars, agentVars>>
    \/ CalcEval /\ UNCHANGED <<callVars, memVars, chunkVars, storeVars, agentVars>>

InitCalc == MemInit /\ ChunkIdle /\ StoreIdle /\ CalcInit /\ AgentIdle /\ CallIdle

SpecCalc == InitCalc /\ [][NextCalc]_vars

NextAgent ==
    \/ \E query \in Queries, session_id \in SessionIds, use_tools \in BOOLEAN :
          QueryCall(query, session_id, use_tools)
              /\ UNCHANGED <<callVars, chunkVars, storeVars, calcVars>>
    \/ QueryRemember /\ UNCHANGED <<callVars, chunkVars, storeVars, calcVars>>
    \/ QueryRoute /\ UNCHANGED <<callVars, chunkVars, storeVars, calcVars>>
    \/ \E fault \in BOOLEAN, message \in FirstMessages :
          FirstCompletion(fault, message) /\ UNCHANGED <<callVars, chunkVars, storeVars, calcVars>>
    \/ \E outcome \in {"empty", "hits", "raises"} :
          ToolStep(outcome) /\ UNCHANGED <<callVars, chunkVars, storeVars, calcVars>>
    \/ \E fault \in BOOLEAN :
          SecondCompletion(fault) /\ UNCHANGED <<callVars, chunkVars, storeVars, calcVars>>
    \/ \E outcome \in {"empty", "hits", "raises"} :
          FallbackTool(outcome) /\ UNCHANGED <<callVars, chunkVars, storeVars, calcVars>>
    \/ \E fault \in BOOLEAN :
          FallbackCompletion(fault) /\ UNCHANGED <<callVars, chunkVars, storeVars, calcVars>>
    \/ QueryFinalize /\ UNCHANGED <<callVars, chunkVars, storeVars, calcVars>>
    \/ QueryExcept /\ UNCHANGED <<callVars, chunkVars, storeVars, calcVars>>

InitAgent == MemInit /\ ChunkIdle /\ StoreIdle /\ CalcIdle /\ AgentInit /\ CallIdle

SpecAgent == InitAgent /\ [][NextAgent]_vars

\* ---- A session with a history.  Turn i of the history is a direct
\* ---- exchange: the query "question i" and the answer "answer i".
Turn(i) ==
    <<Message("user", Str(<<"question">> \o IntText(i)), "None"),
      Message("assistant", Str(<<"answer">> \o IntText(i)), "{tool_calls, sources}")>>

RECURSIVE Turns(_)
Turns(k) == IF k = 0 THEN <<>> ELSE Turns(k - 1) \o Turn(k)

\* The numbers of earlier turns tried: none, and one less than, exactly and
\* one more than what fills the context window together with the new query.
PriorTurns == {0, MaxTurns - 2, MaxTurns - 1, MaxTurns}

\* Session s1 after k earlier queries; one more call is left to make.
PromptInit ==
    /\ \E k \in PriorTurns :
          /\ sessions = IF k = 0 THEN <<>> ELSE [s \in {"s1"} |-> Turns(k)]
          /\ appended = [s \in SessionIds |->
                            IF s = "s1"
                            THEN [i \in 1..(2 * k) |-> <<Turns(k)[i].role, Turns(k)[i].content>>]
                            ELSE <<>>]
          /\ op = IF k = 0 THEN [name |-> "init", sid |-> "", limit |-> None]
                  ELSE [name |-> "add_message", sid |-> "s1", limit |-> None]
    /\ ret = <<>>
    /\ rag_system \in {"None", "RAGSystem"}
    /\ qpc = "idle"
    /\ qargs = [query |-> QueryHello, session_id |-> "s1", use_tools |-> TRUE]
    /\ messages = <<>>
    /\ first = None
    /\ ti = 1
    /\ tool_calls_made = <<>>
    /\ sources = <<>>
    /\ answer = PyNone
    /\ qresult = None
    /\ exc = None
    /\ completions = <<>>
    /\ entry = <<>>
    /\ events = <<>>
    /\ queries = MaxQueries - 1

InitPrompt == ChunkIdle /\ StoreIdle /\ CalcIdle /\ PromptInit /\ CallIdle

SpecPrompt == InitPrompt /\ [][NextAgent]_vars

NextCallers ==
    \/ \E c \in Callers, sid \in SessionIds, role \in Roles, content \in Contents :
          CallAddMessage(c, sid, role, content)
              /\ UNCHANGED <<chunkVars, storeVars, calcVars, agentVars>>
    \/ \E c \in Callers :
          CheckSession(c) /\ UNCHANGED <<chunkVars, storeVars, calcVars, agentVars>>
    \/ \E c \in Callers :
          CreateSession(c) /\ UNCHANGED <<chunkVars, storeVars, calcVars, agentVars>>
    \/ \E c \in Callers :
          AppendMessage(c) /\ UNCHANGED <<chunkVars, storeVars, calcVars, agentVars>>

InitCallers == CallInit /\ ChunkIdle /\ StoreIdle /\ CalcIdle /\ AgentIdle

SpecCallers == InitCallers /\ [][NextCallers]_vars

(***************************************************************************)
(* Claims about AgentMemory, checked under SpecMemory.                     *)
(***************************************************************************)

\* C1 - Session isolation: an add_message or clear_session on session A
\* leaves what get_history returns for every other session B, under every
\* limit, exactly as it was; a message appended to A never shows up in B.
C1_SessionIsolation ==
    [][\A b \in SessionIds :
          (op'.name \in {"add_message", "clear_session"} /\ op'.sid /= b)
              => \A limit \in Limits :
                    get_history(sessions', b, limit) = get_history(sessions, b, limit)
      ]_vars

\* An append to s1 has just run while s2 holds a history of its own.
C1_Witness ==
    /\ op.name = "add_message"
    /\ op.sid = "s1"
    /\ "s2" \in DOMAIN sessions
    /\ Len(sessions["s1"]) = 2
    /\ sessions["s2"][1].content /= sessions["s1"][2].content

\* C2 - After N add_message calls on a session with no clear_session in
\* between, get_history without a limit returns exactly N messages carrying
\* the roles and contents of the appends, in the order of the appends.
C2_AppendOrder ==
    \A s \in SessionIds :
        LET h == get_history(sessions, s, None)
        IN  /\ Len(h) = Len(appended[s])
            /\ \A i \in 1..Len(h) : <<h[i].role, h[i].content>> = appended[s][i]

\* Three appends to one session with differing contents, then a read.
C2_Witness ==
    /\ op = [name |-> "get_history", sid |-> "s1", limit |-> None]
    /\ Len(ret) = 3
    /\ appended["s1"] = << <<"user", "hello">>, <<"assistant", "bye">>, <<"user", "bye">> >>

\* C3 - After clear_session(S) every get_history(S) is empty until the next
\* add_message(S); clear_session on a session that does not exist changes
\* nothing; an add_message on an empty history leaves a history of length 1.
C3_Clear ==
    [][/\ op'.name = "clear_session"
            => /\ \A limit \in Limits : get_history(sessions', op'.sid, limit) = <<>>
               /\ op'.sid \notin DOMAIN sessions => sessions' = sessions
       /\ \A s \in SessionIds :
            (/\ get_history(sessions, s, None) = <<>>
             /\ ~(op'.name = "add_message" /\ op'.sid = s))
                => \A limit \in Limits : get_history(sessions', s, limit) = <<>>
       /\ (op'.name = "add_message" /\ get_history(sessions, op'.sid, None) = <<>>)
            => Len(get_history(sessions', op'.sid, None)) = 1
      ]_vars

\* s1 was written to and then cleared, while s2 still holds messages.
C3_Witness ==
    /\ op.name = "clear_session"
    /\ op.sid = "s1"
    /\ "s1" \notin DOMAIN sessions
    /\ "s2" \in DOMAIN sessions
    /\ Len(sessions["s2"]) = 2

\* The last min(n, len(h)) elements of h, in order.
LastN(h, n) ==
    LET k == Min(n, Len(h))
    IN  [i \in 1..k |-> h[Len(h) - k + i]]

\* C4 - Bounded-window read: get_history with an integer limit n >= 0
\* returns exactly the last min(n, len(h)) messages of the history h, in
\* their original order; so n = 0 returns an empty sequence.
C4_BoundedWindow ==
    (op.name = "get_history" /\ op.limit /= None)
        => LET h == IF op.sid \in DOMAIN sessions THEN sessions[op.sid] ELSE <<>>
           IN  ret = LastN(h, op.limit[1])

(***************************************************************************)
(* Claims about chunk_text, checked under SpecChunk.                       *)
(***************************************************************************)

\* C5 - chunk_text terminates for every text, chunk_size >= 1 and
\* chunk_overlap >= 0: each loop iteration moves the window start strictly
\* forward.
C5_StartMovesForward ==
    [][Len(windows') > Len(windows) => start' > start]_vars

\* C6 - For every non-empty text, no chunk returned by chunk_text is longer
\* than chunk_size characters, and a text longer than chunk_size yields more
\* than one chunk.
C6_BoundedAndSplit ==
    (cpc = "done" /\ text /= <<>>)
        => /\ \A i \in 1..Len(result) : Len(result[i]) <= chunk_size
           /\ Len(text) > chunk_size => Len(result) > 1

\* C6 as amended - no chunk appended or returned by chunk_text is longer
\* than chunk_size characters, and a text longer than chunk_size is cut into
\* more than one window (the returned list may still hold one chunk or
\* none, since white-space-only chunks are dropped).
C6_BoundedAndWindowed ==
    /\ \A i \in 1..Len(chunks) : Len(chunks[i]) <= chunk_size
    /\ \A i \in 1..Len(result) : Len(result[i]) <= chunk_size
    /\ (cpc \in {"done", "exhausted"} /\ Len(text) > chunk_size) => Len(windows) > 1

\* A text longer than chunk_size went through several windows and came
\* back as at most one chunk.
C6_Witness ==
    /\ cpc = "done"
    /\ Len(text) > chunk_size
    /\ Len(windows) > 1
    /\ Len(result) <= 1
    /\ \E i \in 1..Len(chunks) : Len(chunks[i]) = chunk_size

\* C7 - chunk_text never returns an empty or white-space-only chunk, and
\* for the empty text it returns the empty list (it reaches its return).
C7_NoBlankChunk ==
    /\ cpc = "done"
         => \A i \in 1..Len(result) :
               /\ result[i] /= <<>>
               /\ \E j \in 1..Len(result[i]) : ~IsSpace(result[i][j])
    /\ (text = <<>> /\ cpc /= "call") => (cpc = "done" /\ result = <<>>)

\* A call returned after dropping a chunk that was white space only.
C7_Witness ==
    /\ cpc = "done"
    /\ Len(result) >= 1
    /\ Len(result) < Len(chunks)

\* Character index i of the text lies in one of the windows visited.
Covered(i) == \E k \in 1..Len(windows) : windows[k][1] <= i /\ i < windows[k][2]

\* C8 - Contiguous coverage: for a non-empty text and 0 <= chunk_overlap <
\* chunk_size, once the loop has ended the windows [start, end) cover every
\* character index: the first starts at 0, each next one starts at or before
\* the end of the one before, and the last reaches the end of the text.
C8_ContiguousCoverage ==
    (cpc \in {"done", "exhausted"} /\ text /= <<>> /\ chunk_overlap < chunk_size)
        => /\ windows[1][1] = 0
           /\ \A k \in 1..(Len(windows) - 1) : windows[k + 1][1] <= windows[k][2]
           /\ windows[Len(windows)][2] >= Len(text)
           /\ \A i \in 0..(Len(text) - 1) : Covered(i)

(***************************************************************************)
(* Claims about the vector store, checked under SpecStore.                 *)
(***************************************************************************)

\* C9 - Lockstep: in every state reached by add_documents, ingest_documents,
\* save and load calls, failing ones included, the index holds as many
\* vectors as the document list holds chunks, and the i-th vector is the
\* one that was added with the i-th chunk.
C9_Lockstep ==
    /\ Len(index) = Len(documents)
    /\ \A i \in 1..Len(index) : i <= Len(documents) => index[i].of = documents[i]

\* C10 - add_documents rejects every call whose chunk count differs from
\* its vector count: it fails with the mismatch error and leaves the index
\* unchanged; a call that returns normally without adding anything was
\* given two empty lists.
C10_RejectsMismatch ==
    [][(sop'.name = "add_documents" /\ calls' > calls)
          => /\ sop'.ndocs /= sop'.nembs
                  => /\ sop'.outcome = "ValueError"
                     /\ index' = index
                     /\ documents' = documents
             /\ (sop'.outcome = "None" /\ index' = index)
                  => (sop'.ndocs = 0 /\ sop'.nembs = 0)
      ]_vars

\* C11 - Index search: for every index holding count entries and every
\* k >= 1, search returns at most min(k, count) results, ordered by
\* non-decreasing distance, each a chunk of the stored list with a score
\* attached; on an index of 0 entries it returns the empty list normally.
C11_IndexSearch ==
    (scall /= None /\ scall[1].level = "vector_store")
        => /\ sop.outcome = "None"
           /\ Len(found) <= Min(scall[1].top_k, Len(index))
           /\ \A p \in 1..(Len(found) - 1) : found[p].score <= found[p + 1].score
           /\ \A p \in 1..Len(found) :
                 \E i \in 1..Len(documents) :
                    /\ found[p] = Scored(documents[i], found[p].score)
                    /\ i <= Len(index)
                    /\ found[p].score = SquaredL2(index[i].vec, scall[1].query)
           /\ Len(index) = 0 => found = <<>>

\* A search for more results than the index holds returned all three
\* entries, and the nearest one was not the one added first.
C11_Witness ==
    /\ scall /= None
    /\ scall[1].level = "vector_store"
    /\ scall[1].top_k > Len(index)
    /\ Len(index) = 3
    /\ Len(found) = 3
    /\ found[1].score < found[3].score
    /\ found[1] /= Scored(documents[1], found[1].score)

\* C12 - load returns false, raises nothing and leaves the in-memory index
\* (vectors and chunk list) and the ready flag unchanged whenever one of the
\* two files is absent; and it never loads one file without the other:
\* a load either takes both the vectors and the chunk list from the files
\* or leaves both as they were.
C12_LoadBothOrNeither ==
    [][(sop'.name = "load_index" /\ calls' > calls)
          => /\ (index_file = None \/ documents_file.state = "absent")
                  => /\ sop'.outcome = "False"
                     /\ index' = index
                     /\ documents' = documents
                     /\ is_initialized' = is_initialized
             /\ \/ /\ index' = index
                   /\ documents' = documents
                \/ /\ sop'.outcome = "True"
                   /\ index' = index_file[1]
                   /\ documents' = documents_file.docs
      ]_vars

\* C13 - The two files are written and read as a pair: in every state,
\* also after a save that stopped between its two file operations or a
\* second save over a first, a pair that load accepts (both files present
\* and readable) was written by one and the same save and holds as many
\* vectors as chunks.
C13_AtomicPair ==
    (index_file /= None /\ documents_file.state = "ok")
        => /\ stamp.index_file = stamp.documents_file
           /\ Len(index_file[1]) = Len(documents_file.docs)

\* C14 - Readiness: a new engine starts not ready, and as long as no
\* ingest_documents and no load_index of the engine has succeeded (failed
\* ones may have run), RAGSystem.search returns the empty list, raises
\* nothing and does not call the embedding provider.
C14_Readiness ==
    /\ sop.name = "init" => ~is_initialized
    /\ (scall /= None /\ scall[1].level = "rag_system" /\ ~succeeded)
          => /\ found = <<>>
             /\ sop.outcome = "None"
             /\ ~scall[1].embedded

\* The engine was searched while its index held vectors that no successful
\* ingest or load had put there (a direct add, or a load that failed
\* half-way).
C14_Witness ==
    /\ scall /= None
    /\ scall[1].level = "rag_system"
    /\ ~succeeded
    /\ Len(index) > 0
    /\ found = <<>>

\* C15 - ingest_documents raises the no-documents error exactly when none
\* of the given paths was loaded and chunked successfully; when at least
\* one path was processed successfully, even one that yields no chunk, the
\* no-documents error is not raised.
C15_NoDocumentsIffNoneProcessed ==
    sop.name = "ingest_documents"
        => (sop.outcome = NoDocumentsError
                <=> \A i \in 1..Len(ingested.paths) : ~Processed[ingested.paths[i]].ok)

\* The chunks of the i-th path of ps when process_document accepts it.
ChunksOf(ps, i) == IF Processed[ps[i]].ok THEN Processed[ps[i]].docs ELSE <<>>

\* The number of chunks of the successful paths among the first i of ps.
RECURSIVE ChunksUpTo(_, _)
ChunksUpTo(ps, i) == IF i = 0 THEN 0 ELSE ChunksUpTo(ps, i - 1) + Len(ChunksOf(ps, i))

\* C16 - Partial-success ingestion: a path that fails (unsupported
\* extension, read error) never aborts the batch.  With the embedding
\* provider answering, after an ingest_documents call the document list and
\* the index hold, after what they held before, the chunks of every
\* successful path, in path order and within a path in chunk order, each
\* with its embedding; the call returns normally whenever there is at least
\* one such chunk, and otherwise raises the no-documents error and changes
\* nothing.
C16_PartialSuccess ==
    [][(sop'.name = "ingest_documents" /\ calls' > calls /\ ingested'.provider = "ok")
          => LET ps == ingested'.paths
                 n  == ChunksUpTo(ps, Len(ps))
                 m  == Len(documents)
             IN  /\ sop'.outcome = (IF n > 0 THEN "None" ELSE NoDocumentsError)
                 /\ Len(documents') = m + n
                 /\ Len(index') = Len(index) + n
                 /\ SubSeq(documents', 1, m) = documents
                 /\ SubSeq(index', 1, Len(index)) = index
                 /\ \A i \in 1..Len(ps) : \A c \in 1..Len(ChunksOf(ps, i)) :
                       LET d == ChunksOf(ps, i)[c]
                           k == ChunksUpTo(ps, i - 1) + c
                       IN  /\ documents'[m + k] = d
                           /\ index'[Len(index) + k].of = d
                           /\ index'[Len(index) + k].vec = Embed(d.content)
      ]_vars

\* A batch of a missing file and a text file of two chunks was ingested
\* into a store that already held a chunk of another document.
C16_Witness ==
    /\ sop.name = "ingest_documents"
    /\ sop.outcome = "None"
    /\ ingested.paths = <<PathM, PathA>>
    /\ Len(documents) = 3
    /\ documents[1].source = PathName(PathB)
    /\ documents[3].chunk_id = 1

(***************************************************************************)
(* Claims about AgentTools.calculate, checked under SpecCalc.              *)
(***************************************************************************)

\* The characters the calculator is to accept.
Permitted == DigitChars \cup {"+", "-", "*", "/", ".", "(", ")", " "}

HasForeign(chars) == \E i \in 1..Len(chars) : chars[i] \notin Permitted

BeginsWithError(s) == s /= <<>> /\ s[1] = "Error: "

\* C17 - Calculator whitelist: for every input string, eval is reached only
\* if every character is a digit, one of + - * / . ( ) or a space; an input
\* with any other character returns an error string and eval is never
\* attempted.
C17_Whitelist ==
    expression.type = "str"
        => /\ evaluated => ~HasForeign(expression.chars)
           /\ (kpc = "done" /\ HasForeign(expression.chars))
                 => /\ ~evaluated
                    /\ cret = ErrorText("Invalid characters in expression")
                    /\ BeginsWithError(cret)

\* calculate returned for an input that mixes digits, an operator and a
\* letter.
C17_Witness ==
    /\ kpc = "done"
    /\ expression = Str(<<"1", "+", "a">>)
    /\ ~evaluated
    /\ BeginsWithError(cret)

\* A numeral: digits with at most one point among them.
IsDecimalText(s) ==
    /\ s /= <<>>
    /\ \A i \in 1..Len(s) : s[i] \in DigitChars \cup {"."}
    /\ \E i \in 1..Len(s) : s[i] \in DigitChars
    /\ Cardinality({i \in 1..Len(s) : s[i] = "."}) <= 1

\* C18 - calculate is total: for every input (the empty string, unbalanced
\* brackets, a division by zero, an argument that is no string) it returns
\* a string and never raises; the string begins with "Error" for a
\* malformed expression and is the decimal text of the value for a
\* well-formed one: "2 + 2" gives "4" and "10 * 5" gives "50".
C18_ErrorOrDecimal ==
    /\ kpc \in {"idle", "call", "eval", "done"}
    /\ kpc = "done"
         => /\ BeginsWithError(cret) \/ IsDecimalText(cret)
            /\ expression = TwoPlusTwo => cret = <<"4">>
            /\ expression = TenTimesFive => cret = <<"5", "0">>

(***************************************************************************)
(* Claims about AIAgent.process_query, checked under SpecAgent.            *)
(***************************************************************************)

\* C19 - Tool execution never escapes the orchestration loop: every round
\* of the loop over the structured tool calls of the first completion
\* (unknown tool name, tool that fails internally, arguments text that is
\* not valid JSON, arguments that decode to something other than a
\* key-value map) appends one tool message whose content is a string and
\* whose id is the call's, and moves on to the next call or to the second
\* completion request; it never enters the except clause.
C19_ToolsNeverEscape ==
    [][(qpc = "tools" /\ ti <= Len(first[1].tool_calls))
          => /\ qpc' = "tools"
             /\ ti' = ti + 1
             /\ exc' = None
             /\ Len(messages') = Len(messages) + 1
             /\ messages'[Len(messages')].role = "tool"
             /\ messages'[Len(messages')].tool_call_id = first[1].tool_calls[ti].id
             /\ messages'[Len(messages')].content.type = "str"]_vars

\* C20 - Terminal error state: no exception leaves process_query; when one
\* was raised in the call, the call returns having appended to the session,
\* after the user message, exactly one assistant message with metadata
\* error = true, and its result has the fields answer, sources, tool_calls,
\* session_id and error, with empty sources and tool_calls.
C20_TerminalError ==
    /\ qpc /= "raised"
    /\ exc /= None => qpc \in {"except", "returned"}
    /\ (exc /= None /\ qpc = "returned") =>
          /\ sessions[qargs.session_id]
                = entry \o <<Message("user", qargs.query, "None"),
                             Message("assistant", qresult[1].answer, "{error}")>>
          /\ DOMAIN qresult[1] = {"answer", "sources", "tool_calls", "session_id", "error"}
          /\ qresult[1].sources = <<>>
          /\ qresult[1].tool_calls = <<>>
          /\ qresult[1].session_id = qargs.session_id

\* The tools of TOOL_DEFINITIONS
RegisteredTools == {"get_current_time", "calculate", "search_documents"}

\* The text holds, among other pieces, the JSON object of an invocation of
\* the tool `name' with its arguments.
Embeds(content, name) ==
    /\ content.type = "str"
    /\ \E arguments \in {ArgsQuery, ArgsExpression, ArgsEmpty} :
       \E i \in 1..Len(content.chars) :
          /\ Len(CallJson(name, arguments)) < Len(content.chars)
          /\ i + Len(CallJson(name, arguments)) - 1 <= Len(content.chars)
          /\ SubSeq(content.chars, i, i + Len(CallJson(name, arguments)) - 1)
                = CallJson(name, arguments)

EmbedsCall(content) == \E name \in RegisteredTools : Embeds(content, name)

\* The tool named by the invocation the text holds
EmbeddedTool(content) == CHOOSE name \in RegisteredTools : Embeds(content, name)

\* C21 - Fallback recovery: when the first completion carried no structured
\* tool call and its text holds, embedded in prose, the JSON object of an
\* invocation of a registered tool, the query that has returned has
\* executed that tool exactly once, has issued exactly one further
\* completion request, and its answer is that completion's text, not the
\* text of the first response.
C21_FallbackRecovery ==
    (/\ qpc = "returned"
     /\ exc = None
     /\ first /= None
     /\ first[1].tool_calls = <<>>
     /\ EmbedsCall(first[1].content))
        => /\ Len(tool_calls_made) = 1
           /\ tool_calls_made[1].tool = EmbeddedTool(first[1].content)
           /\ Len(completions) = 2
           /\ completions[2].reply /= None =>
                 /\ qresult[1].answer = completions[2].reply[1]
                 /\ qresult[1].answer /= first[1].content

\* The texts on which the fallback fails at one of its steps: no JSON
\* substring, invalid JSON, an empty list, a value that is no object, a
\* name that is not recognised, string arguments that cannot be parsed.
FailingContents ==
    {ContentBroken, ContentInvalid, ContentEmptyList, ContentNumber, ContentOtherName,
     ContentStringArgs}

\* C22 - Best-effort fallback: when the first completion carried no
\* structured tool call and its text is one on which locating, parsing or
\* recognising the invocation fails, no exception is raised or recorded, no
\* further completion is requested, the answer is the first response's text
\* unchanged, and the query returns on the normal path with that text
\* appended to the session as the assistant message.
C22_BestEffort ==
    (/\ first /= None
     /\ first[1].tool_calls = <<>>
     /\ first[1].content \in FailingContents)
        => /\ qpc \in {"fallback", "finalize", "returned"}
           /\ exc = None
           /\ Len(completions) = 1
           /\ qpc \in {"finalize", "returned"} => answer = first[1].content
           /\ qpc = "returned" =>
                 /\ qresult[1].answer = first[1].content
                 /\ "timestamp" \in DOMAIN qresult[1]
                 /\ sessions[qargs.session_id]
                       = entry \o <<Message("user", qargs.query, "None"),
                                    Message("assistant", first[1].content,
                                            "{tool_calls, sources}")>>

\* A query has returned whose first response gave the arguments as a string
\* that is no JSON: the tool ran, and the source tag raised inside the branch.
C22_Witness ==
    /\ qpc = "returned"
    /\ first /= None
    /\ first[1].content = ContentStringArgs
    /\ Len(tool_calls_made) = 1
    /\ sources = <<>>

\* the positions of an event in the history of the current call
Positions(e) == {i \in 1..Len(events) : events[i] = e}

\* C23 - Per-query ordering: in every execution of process_query the user
\* message is appended before the first completion request, a tool is
\* executed only after the first completion request and before the second,
\* at most two completion requests are made, and the assistant message is
\* appended after the last completion request and before the return; no
\* call ends otherwise than by that return.
C23_Ordering ==
    /\ qpc /= "raised"
    /\ \A i \in Positions("completion") : \E j \in Positions("user") : j < i
    /\ \A i \in Positions("tool") :
          Cardinality({j \in Positions("completion") : j < i}) = 1
    /\ Cardinality(Positions("completion")) <= 2
    /\ \A i \in Positions("assistant") : \A j \in Positions("completion") : j < i
    /\ Cardinality(Positions("assistant")) <= 1
    /\ qpc = "returned" =>
          /\ Len(events) >= 3
          /\ events[1] = "user"
          /\ events[Len(events) - 1] = "assistant"
          /\ events[Len(events)] = "return"

\* C24 - Well-formed result, as claimed: every value process_query returns,
\* on the normal path and on the error path alike, has the fields answer,
\* sources, tool_calls, session_id and timestamp, the session_id being the
\* one passed in.
C24_WellFormedResult ==
    qresult /= None =>
       /\ {"answer", "sources", "tool_calls", "session_id", "timestamp"}
             \subseteq DOMAIN qresult[1]
       /\ qresult[1].session_id = qargs.session_id

\* C24 - Well-formed result, amended: every value process_query returns has
\* the fields answer, sources, tool_calls and session_id, the session_id
\* being the one passed in; on the normal path the fifth field is timestamp,
\* on the error path it is error and there is no timestamp.
C24_ResultFields ==
    qresult /= None =>
       /\ qresult[1].session_id = qargs.session_id
       /\ DOMAIN qresult[1] =
             {"answer", "sources", "tool_calls", "session_id"}
                 \cup (IF exc = None THEN {"timestamp"} ELSE {"error"})

\* A call has returned on the error path.
C24_Witness ==
    /\ qpc = "returned"
    /\ exc /= None
    /\ qresult /= None
    /\ "error" \in DOMAIN qresult[1]
    /\ qargs.session_id = "s2"

\* the tool messages among the messages of the call, in order
ToolMessages == SelectSeq(messages, LAMBDA m : m.role = "tool")

\* C25 - Structured tool-call path: when a call whose first completion
\* carried n >= 1 tool calls has returned, it holds exactly n tool-call
\* records in request order and exactly n tool messages, the i-th with the
\* id of the i-th call, one source tag per search_documents call and none
\* for another tool, and it has made exactly one second completion request,
\* without tool schemas, whose text is the answer.
C25_StructuredPath ==
    (/\ qpc = "returned"
     /\ first /= None
     /\ first[1].tool_calls /= <<>>)
        => /\ Len(tool_calls_made) = Len(first[1].tool_calls)
           /\ \A i \in 1..Len(tool_calls_made) :
                 tool_calls_made[i].tool = first[1].tool_calls[i].name
           /\ Len(ToolMessages) = Len(first[1].tool_calls)
           /\ \A i \in 1..Len(ToolMessages) :
                 ToolMessages[i].tool_call_id = first[1].tool_calls[i].id
           /\ Len(sources)
                 = Cardinality({i \in 1..Len(first[1].tool_calls) :
                                   first[1].tool_calls[i].name = "search_documents"})
           /\ Len(completions) = 2
           /\ ~completions[2].tools
           /\ completions[2].reply /= None =>
                 qresult[1].answer = completions[2].reply[1]

(***************************************************************************)
(* Claims about the prompt of process_query, checked under SpecPrompt.     *)
(***************************************************************************)

\* C26 - Prompt assembly: the message list of the first completion request
\* is the system message followed by the last min(10, n) of the n messages
\* the session holds at that moment, in their stored order and with role
\* and content only; its last element is the user message of the current
\* query.
C26_PromptAssembly ==
    completions /= <<>> =>
       LET h == entry \o <<Message("user", qargs.query, "None")>>
           k == Min(10, Len(h))
           sent == completions[1].messages
       IN  /\ Len(sent) = 1 + k
           /\ sent[1].role = "system"
           /\ \A i \in 1..k :
                 sent[1 + i] = [role    |-> h[Len(h) - k + i].role,
                                content |-> h[Len(h) - k + i].content]
           /\ sent[Len(sent)] = [role |-> "user", content |-> qargs.query]

\* A first completion request was made on a session that held twelve
\* messages at the call: the window leaves out the three oldest.
C26_Witness ==
    /\ completions /= <<>>
    /\ Len(entry) = 12
    /\ Len(completions[1].messages) = 11
    /\ completions[1].messages[2].content = Str(<<"answer", "2">>)

\* s is an initial part of t.
IsPrefix(s, t) == Len(s) <= Len(t) /\ SubSeq(t, 1, Len(s)) = s

\* What t holds after its first Len(s) elements.
Appended(s, t) == SubSeq(t, Len(s) + 1, Len(t))

\* The texts of a list of chunks.
ContentsOf(docs) == [i \in 1..Len(docs) |-> docs[i].content]

\* C27 - Append-only index: every successful add_documents or
\* ingest_documents call keeps the (chunk, vector) pairs stored before it,
\* unmodified and in the same positions, as a prefix of the index after it,
\* and the new pairs (the i-th chunk given with the i-th vector given)
\* follow in the order given; no call other than a load removes or reorders
\* an entry of the store it is made on.
C27_AppendOnly ==
    [][calls' > calls
          => /\ sop'.name \notin {"load_index", "init"}
                  => /\ IsPrefix(index, index')
                     /\ IsPrefix(documents, documents')
             /\ (sop'.name = "ingest_documents" /\ sop'.outcome = "None")
                  => \E given \in {ProcessAll(ingested'.paths)} :
                     \E vectors \in {generate_embeddings(ContentsOf(given),
                                                         ingested'.provider).embeddings} :
                     \E n \in {IF Len(given) < Len(vectors)
                               THEN Len(given) ELSE Len(vectors)} :
                        /\ Appended(documents, documents') = SubSeq(given, 1, n)
                        /\ Appended(index, index')
                             = Entries(SubSeq(given, 1, n), vectors)
             /\ (sop'.name = "add_documents" /\ sop'.outcome = "None")
                  => \E n \in {IF sop'.ndocs = 0 \/ sop'.nembs = 0
                               THEN 0 ELSE sop'.ndocs} :
                        /\ Len(Appended(documents, documents')) = n
                        /\ Len(Appended(index, index')) = n
                        /\ \A i \in 1..n :
                              /\ Appended(documents, documents')[i] \in DirectDocs
                              /\ Appended(index, index')[i].of \in DirectDocs
                              /\ Appended(index, index')[i].vec \in DirectVecs
      ]_vars

\* A successful ingest_documents call added two chunks of different
\* documents behind an entry that was already stored.
C27_Witness ==
    /\ sop.name = "ingest_documents"
    /\ sop.outcome = "None"
    /\ Len(ProcessAll(ingested.paths)) >= 2
    /\ Len(documents) > Len(ProcessAll(ingested.paths))
    /\ documents[Len(documents)] /= documents[Len(documents) - 1]
    /\ documents[1] /= documents[Len(documents)]

\* C28 - All-or-nothing ingest: an ingest_documents call that fails (no
\* document processed, an embedding batch failure, a count mismatch at
\* add) leaves the index contents and the ready flag exactly as they were;
\* the ready flag becomes true only on a successful ingest_documents or a
\* successful load_index, and no call on the engine sets it back to false.
C28_AllOrNothing ==
    [][calls' > calls
          => /\ (sop'.name = "ingest_documents" /\ sop'.outcome /= "None")
                  => /\ index' = index
                     /\ documents' = documents
                     /\ is_initialized' = is_initialized
             /\ (~is_initialized /\ is_initialized')
                  => \/ sop'.name = "ingest_documents" /\ sop'.outcome = "None"
                     \/ sop'.name = "load_index" /\ sop'.outcome = "True"
             /\ (is_initialized /\ sop'.name /= "init") => is_initialized'
      ]_vars

\* An ingest_documents call has failed at the count check of add on a
\* store that holds entries; the engine was not ready.
C28_Witness ==
    /\ sop.name = "ingest_documents"
    /\ sop.outcome = "ValueError"
    /\ sop.ndocs > sop.nembs
    /\ sop.nembs > 0
    /\ Len(index) > 0
    /\ ~is_initialized

\* C29 - Window bounds in chunk_text: for every text and every
\* 0 <= chunk_overlap < chunk_size, at the top of every loop iteration the
\* window start satisfies 0 <= start < len(text), so no window is taken
\* from a negative index, and each new start is the end of the window
\* before it minus chunk_overlap.
C29_WindowBounds ==
    (cpc = "loop" /\ chunk_overlap < chunk_size)
        => /\ start < Len(text) => 0 <= start
           /\ \A k \in 1..Len(windows) :
                 0 <= windows[k][1] /\ windows[k][1] < Len(text)
           /\ windows /= <<>> => start = windows[Len(windows)][2] - chunk_overlap

(***************************************************************************)
(* Claims about the session history process_query leaves, under SpecAgent. *)
(***************************************************************************)

\* the messages a session holds; a session never written holds none
HistoryOf(s) == IF s \in DOMAIN sessions THEN sessions[s] ELSE <<>>

RECURSIVE TotalLength(_)
\* the number of messages held by the sessions of S together
TotalLength(S) ==
    IF S = {} THEN 0
    ELSE LET s == CHOOSE x \in S : TRUE
         IN  Len(HistoryOf(s)) + TotalLength(S \ {s})

\* C30 - Two messages per query: after k process_query calls run one after
\* another with no clear_session, whatever their outcomes, the sessions
\* hold exactly 2k messages, each session's history alternates strictly
\* user, assistant, and the assistant message of the last call follows the
\* user message of that call.
C30_TwoMessagesPerQuery ==
    qpc \in {"idle", "returned", "raised"}
        => /\ TotalLength(SessionIds) = 2 * queries
           /\ \A s \in SessionIds :
                 \A i \in 1..Len(HistoryOf(s)) :
                    HistoryOf(s)[i].role = IF i % 2 = 1 THEN "user" ELSE "assistant"
           /\ queries > 0
                 => LET h == HistoryOf(qargs.session_id)
                    IN  /\ Len(h) = Len(entry) + 2
                        /\ SubSeq(h, 1, Len(entry)) = entry
                        /\ h[Len(h) - 1] = Message("user", qargs.query, "None")
                        /\ h[Len(h)].role = "assistant"

\* C31 - Disabled tools: in a process_query call with use_tools = false no
\* tool schema is sent with any completion request, no tool is executed on
\* any path, and the tool_calls and sources of the returned result are
\* empty, whatever the response of the model holds.
C31_DisabledTools ==
    (qpc /= "idle" /\ ~qargs.use_tools)
        => /\ \A i \in 1..Len(completions) : ~completions[i].tools
           /\ Positions("tool") = {}
           /\ tool_calls_made = <<>>
           /\ qresult /= None
                 => /\ qresult[1].tool_calls = <<>>
                    /\ qresult[1].sources = <<>>

\* The answer of the call that returned is the text of the first response:
\* no later completion request gave a reply.
AnswerFromFirst ==
    /\ first /= None
    /\ qresult[1].answer = first[1].content
    /\ \A i \in 2..Len(completions) : completions[i].reply = None

\* C32 - Answer and provenance agree: whenever process_query returns the
\* first response's text unchanged as the answer, the tool_calls and sources
\* it returns (the lists the assistant message's metadata holds too) are
\* empty; tool-call records and sources are non-empty only when the answer
\* is the reply of a completion requested after the tools ran.
C32_AnswerProvenance ==
    (qpc = "returned" /\ exc = None)
        => /\ AnswerFromFirst
                 => /\ qresult[1].tool_calls = <<>>
                    /\ qresult[1].sources = <<>>
           /\ (qresult[1].tool_calls /= <<>> \/ qresult[1].sources /= <<>>)
                 => /\ Len(completions) = 2
                    /\ completions[2].reply = Some(qresult[1].answer)
                    /\ \A i \in Positions("tool") :
                          \E j \in Positions("completion") : i < j

(***************************************************************************)
(* Claims about concurrent callers of the memory, under SpecCallers.       *)
(***************************************************************************)

\* the <<role, content>> of the messages a session holds
Held(s) == [i \in 1..Len(HistoryOf(s)) |-> <<HistoryOf(s)[i].role, HistoryOf(s)[i].content>>]

\* C33 - No lost append under concurrency: when two callers run add_message
\* on the same session id concurrently, also when the session does not
\* exist yet, every interleaving of the exists-check, the list creation and
\* the append leaves every appended message in the session's history.
C33_NoLostAppend ==
    \A s \in SessionIds : Held(s) = appended[s]

(***************************************************************************)
(* Claims about the result of ingest_documents, under SpecStore.           *)
(***************************************************************************)

\* the positions of the paths process_document handled without raising
ProcessedPaths(paths) == {i \in 1..Len(paths) : Processed[paths[i]].ok}

\* C34 - Ingest counts: the result of a successful ingest_documents call
\* reports as total_documents the number of paths that were successfully
\* processed in the call (failed and skipped paths are not counted) and as
\* total_chunks the number of entries the call appended to the index.
C34_IngestCounts ==
    [][(calls' > calls /\ sop'.name = "ingest_documents" /\ sop'.outcome = "None")
          => /\ sret'.total_documents = Cardinality(ProcessedPaths(ingested'.paths))
             /\ sret'.total_chunks = Len(index') - Len(index)
      ]_vars
====
